---- MODULE Spec2Model ----
(***************************************************************************)
(* Orchestration layer of the document generator.                          *)
(*                                                                         *)
(*   backend/tasks.py            generate_document_task (one run)          *)
(*   backend/api/projects.py     create_project, cancel_, update_project   *)
(*   src/deep_search_agent.py    DeepSearchAgent.search                    *)
(*   src/agents/ppt/multi_slide_generator.py   MultiSlidePPTGenerator      *)
(*   src/llm/client.py           LLMClient                                 *)
(*   src/agents/ppt/design_coordinator.py      DesignCoordinator           *)
(*   src/agents/ppt/page_agent.py              PageAgent                   *)
(*   backend/websocket_manager.py              ConnectionManager           *)
(*   backend/api/documents.py    download_document, preview_document       *)
(*   backend/main.py             websocket_endpoint                        *)
(*   src/llm/manager.py          LLMManager                                *)
(*   start.py                    ServerManager                             *)
(*                                                                         *)
(* One project row and the one background task create_project queued for   *)
(* it.  The task and the request handlers run on one event loop, so a      *)
(* step is the code between two awaits; every commit is a blind UPDATE of  *)
(* the columns the handler assigned.                                       *)
(***************************************************************************)
EXTENDS Integers, Sequences, FiniteSets, TLC

VARIABLES
    project,        \* the committed row of the projects table
    document_type,  \* Project.document_type of the request
    pc,             \* position of generate_document_task
    result,         \* what search_agent.search returned
    exc,            \* the exception caught by the task's except clause
    gpc,            \* position of generate_ppt
    slides_data,    \* generate_ppt's input: the type tag of each slide
    metadata,       \* metadata['slides'] built by _create_slides_metadata
    tasks,          \* the coroutines handed to asyncio.gather
    ppt_dir,        \* the files written under ppt_dir
    slide_files,    \* the list _generate_all_slides returns
    gen_result,     \* what generate_ppt returned
    config,         \* LLMClient.config: provider and max_retries
    instructor_installed,   \* whether "import instructor" succeeds
    entry,          \* the method of LLMClient the caller invoked
    lpc,            \* position of that call
    handler,        \* where get_structured_response called the fallback from
    fallbacks,      \* invocations of _fallback_structured_response
    attempts,       \* retries the SDK made within the current create call
    n_requests,     \* requests the upstream received
    last,           \* what the upstream answered to the latest request
    content,        \* result["content"] of the latest completed chat_completion
    outcome,        \* what the call delivered to its caller
    style,          \* the style tag generate_design_spec was called with
    dpc,            \* position of generate_design_spec
    design_response,    \* what chat_completion returned to the coordinator
    design,         \* the DesignSpec generate_design_spec returned
    design_error,   \* the exception generate_design_spec raised
    defaults_returned,  \* the calls of _get_default_design: <<tag, record>>
    speech_scene,   \* GlobalContext.speech_scene
    ppc,            \* position of generate_page_html
    page_response,  \* what chat_completion returned for the page content
    page_result,    \* the dict generate_page_html returned
    page_error,     \* the exception generate_page_html raised
    active_connections, \* ConnectionManager.active_connections: client id -> websocket
    events,         \* the messages handed to send_personal_message, in order
    last_send,      \* how the latest send_personal_message call ended
    cancel_pc,      \* position of cancel_project
    cancel_response,    \* the caller and the answer of the latest cancel_project
    document_response,  \* the handler, the caller and the answer of the latest document request
    user,           \* the users row of the caller of create_project
    n_projects,     \* rows create_project inserted
    n_queued,       \* tasks create_project handed to background_tasks
    create_response,    \* the answer of the latest create_project
    configs,        \* LLMManager.configs
    clients,        \* LLMManager.clients
    n_clients,      \* LLMClient objects the manager constructed
    manager_result, \* how the latest call of the manager ended
    spc,            \* position of ServerManager.run
    api,            \* the API child process
    worker,         \* the worker child process
    api_process,    \* whether self.api_process holds the API's Popen object
    worker_process, \* whether self.worker_process holds the worker's
    is_running,     \* ServerManager.is_running
    exit_code,      \* the status run() ended the interpreter with
    hpc,            \* position of websocket_endpoint, per websocket
    client_of,      \* the client_id each websocket was opened under
    accepted,       \* the websockets in the order connect stored them
    iters           \* the iterator and the list of each endpoint's broadcast

taskVars == <<pc, result, exc>>
genVars == <<gpc, slides_data, metadata, tasks, ppt_dir, slide_files, gen_result>>
runVars == <<project, document_type, taskVars, genVars>>
llmVars == <<config, instructor_installed, entry, lpc, handler, fallbacks,
             attempts, n_requests, last, content, outcome>>
designVars == <<style, dpc, design_response, design, design_error, defaults_returned>>
pageVars == <<speech_scene, ppc, page_response, page_result, page_error>>
wsVars == <<active_connections, events, last_send, cancel_pc, cancel_response>>
docVars == <<document_response>>
quotaVars == <<user, n_projects, n_queued, create_response>>
mgrVars == <<configs, clients, n_clients, manager_result>>
srvVars == <<spc, api, worker, api_process, worker_process, is_running, exit_code>>
sockVars == <<hpc, client_of, accepted, iters>>
restVars == <<docVars, quotaVars, mgrVars, srvVars, sockVars>>

vars == <<project, document_type, pc, result, exc,
          gpc, slides_data, metadata, tasks, ppt_dir, slide_files, gen_result,
          llmVars, designVars, pageVars, wsVars, restVars>>

----
\* Bounds of the model.
MaxSlides == 3

None == "None"

\* backend/database.py
ProjectStatus == {"pending", "processing", "completed", "failed", "cancelled"}
DocumentType == {"report", "ppt", "analysis", "research", "daily"}

Terminal == {"completed", "failed", "cancelled"}

\* project.progress values written by the task.
Checkpoints == <<0, 10, 20, 60, 80, 100>>

\* Messages of the exceptions the pipeline can raise.
InitErrors == {"LLM configuration error"}
SearchErrors == {"search failed"}
SaveErrors == {"metadata write failed"}
UnknownSearchError == "Unknown error during search"
DocumentNotFound == "Generated document not found"

NoResult == [status |-> None, error |-> None, output_ok |-> FALSE]

\* The row with the columns a commit assigned; the others keep the stored value.
Commit(row, cols) == [c \in DOMAIN row |-> IF c \in DOMAIN cols THEN cols[c] ELSE row[c]]

----
\* generate_document_task

\* lines 29-43: load the project, mark it processing at progress 0.
TaskStartRow == Commit(project, [status |-> "processing", progress |-> Checkpoints[1]])

TaskStart ==
    /\ pc = "start"
    /\ project' = TaskStartRow
    /\ pc' = "notify_0"
    /\ UNCHANGED <<document_type, result, exc, genVars, llmVars, designVars, pageVars, wsVars, restVars>>

\* The user the project belongs to, whose id is the client id the task sends
\* to (str(project.user_id)), and another authenticated user.
Owner == "owner"
Users == {Owner, "other"}

\* websocket_manager.py lines 53-97 and projects.py lines 218-221: the messages.
ProgressEvent(p) == [type |-> "progress", progress |-> p, status |-> "processing"]
CompletedEvent(path) == [type |-> "completed", output_path |-> path]
ErrorEvent(e) == [type |-> "error", error |-> e]
CancelledEvent == [type |-> "project_cancelled"]

\* A dict: d[k] = v and del d[k].
Put(d, k, v) == [x \in DOMAIN d \cup {k} |-> IF x = k THEN v ELSE d[x]]
Del(d, k) == [x \in DOMAIN d \ {k} |-> d[x]]

\* websocket_manager.py lines 29-36, send_personal_message: nothing happens
\* without a connection of that id; send_text puts the message on the socket
\* or raises, and then the connection is dropped (disconnect, lines 23-27).
SendPersonalMessage(message, client) ==
    IF client \notin DOMAIN active_connections
    THEN UNCHANGED <<active_connections, events, last_send>>
    ELSE \/ /\ events' = Append(events, message)
            /\ last_send' = "delivered"
            /\ UNCHANGED active_connections
         \/ /\ active_connections' = Del(active_connections, client)
            /\ last_send' = "raised"
            /\ UNCHANGED events

\* Faulty variant: an exception of send_text reaches the task, which leaves.
AfterSendPropagates(to, how) == IF how = "raised" THEN "finally" ELSE to

\* websocket_manager.py lines 33-36: the except clause ends the call normally,
\* so the caller goes on however the send ended.
AfterSend(to, how) == to

\* An awaited manager.send_* call of the task.
Notify(from, to, message) ==
    /\ pc = from
    /\ SendPersonalMessage(message, Owner)
    /\ pc' = AfterSend(to, last_send')
    /\ UNCHANGED <<project, document_type, result, exc, genVars, llmVars, designVars, pageVars,
                   cancel_pc, cancel_response, restVars>>

TaskNotify0 == Notify("notify_0", "init", ProgressEvent(Checkpoints[1]))

\* Faulty variant: the failure record starts the progress over.
TaskExceptRowResetsProgress(e) ==
    Commit(project, [status |-> "failed", error_message |-> e, progress |-> 0])

\* lines 177-180: the failure record, error_message = str(e).
TaskExceptRow(e) == Commit(project, [status |-> "failed", error_message |-> e])

\* lines 173-180: except Exception as e.  Nothing is awaited between the raise
\* and the handler's commit, so they are one step.
TaskExcept(e) ==
    /\ exc' = e
    /\ project' = TaskExceptRow(e)
    /\ pc' = "notify_error"

\* Faulty variant: the checkpoint after the start is 20, the stage at 10 is skipped.
TaskInitRowSkips == Commit(project, [progress |-> Checkpoints[3]])

\* lines 57-62: build LLMManager and DeepSearchAgent (either constructor may raise),
\* then progress 10.
TaskInitRow == Commit(project, [progress |-> Checkpoints[2]])

TaskInit ==
    /\ pc = "init"
    /\ \/ /\ project' = TaskInitRow
          /\ pc' = "notify_10"
          /\ exc' = exc
       \/ \E m \in InitErrors : TaskExcept(m)
    /\ UNCHANGED <<document_type, result, genVars, llmVars, designVars, pageVars, wsVars, restVars>>

TaskNotify10 == Notify("notify_10", "context", ProgressEvent(Checkpoints[2]))

\* lines 72-83: build the context, progress 20.
TaskContextRow == Commit(project, [progress |-> Checkpoints[3]])

TaskContext ==
    /\ pc = "context"
    /\ project' = TaskContextRow
    /\ pc' = "notify_20"
    /\ UNCHANGED <<document_type, result, exc, genVars, llmVars, designVars, pageVars, wsVars, restVars>>

TaskNotify20 == Notify("notify_20", "search", ProgressEvent(Checkpoints[3]))

----
\* DeepSearchAgent.search and what it awaits

\* What coordinator.process_query hands back for a single-document request: a
\* result dictionary, with or without an "error" entry and an output file.
ProcessQueryResults ==
    [status : {"success"}, error : {None}, output_ok : BOOLEAN]
        \cup [status : {"error"}, error : SearchErrors \cup {None}, output_ok : {FALSE}]

\* What it hands back for a deck: the outcome of generate_ppt.
ProcessQueryDeck(gr, ok) ==
    [status |-> gr.status, error |-> gr.error, output_ok |-> gr.status = "success" /\ ok]

\* deep_search_agent.py lines 98-103: an exception of process_query becomes an
\* error result carrying str(e).
SearchErrorResult(m) == [status |-> "error", error |-> m, output_ok |-> FALSE]

\* lines 68-84: process_query returned, search returns its result unchanged.
SearchReturn ==
    /\ pc = "search"
    /\ \/ /\ document_type # "ppt"
          /\ gpc = "idle"
          /\ result' \in ProcessQueryResults
       \/ /\ document_type = "ppt"
          /\ gpc = "returned"
          /\ \E ok \in BOOLEAN : result' = ProcessQueryDeck(gen_result, ok)
    /\ pc' = "searched"
    /\ UNCHANGED <<project, document_type, exc, genVars, llmVars, designVars, pageVars, wsVars, restVars>>

\* lines 86-103: process_query raised before any deck was started.
SearchRaise ==
    /\ pc = "search"
    /\ gpc = "idle"
    /\ \E m \in SearchErrors : result' = SearchErrorResult(m)
    /\ pc' = "searched"
    /\ UNCHANGED <<project, document_type, exc, genVars, llmVars, designVars, pageVars, wsVars, restVars>>

----
\* generate_document_task, after the search

\* tasks.py lines 95-96: progress 60.
TaskSearchedRow == Commit(project, [progress |-> Checkpoints[4]])

TaskSearched ==
    /\ pc = "searched"
    /\ project' = TaskSearchedRow
    /\ pc' = "notify_60"
    /\ UNCHANGED <<document_type, result, exc, genVars, llmVars, designVars, pageVars, wsVars, restVars>>

TaskNotify60 == Notify("notify_60", "check", ProgressEvent(Checkpoints[4]))

\* Faulty variant: the error the search reported is dropped for the generic message.
SearchFailureGeneric(r) == UnknownSearchError

\* line 107: str(e) of Exception(result.get("error", "Unknown error during search")).
SearchFailure(r) == IF r.error = None THEN UnknownSearchError ELSE r.error

\* lines 117-118: progress 80.
TaskCheckRow == Commit(project, [progress |-> Checkpoints[5]])

\* lines 106-118: raise unless the search succeeded, else progress 80.
TaskCheck ==
    /\ pc = "check"
    /\ IF result.status # "success"
       THEN TaskExcept(SearchFailure(result))
       ELSE /\ project' = TaskCheckRow
            /\ pc' = "notify_80"
            /\ exc' = exc
    /\ UNCHANGED <<document_type, result, genVars, llmVars, designVars, pageVars, wsVars, restVars>>

TaskNotify80 == Notify("notify_80", "finalize", ProgressEvent(Checkpoints[5]))

\* lines 153-159: the completion record.
TaskCompleteRow ==
    Commit(project, [status |-> "completed", progress |-> Checkpoints[6],
                     output_path |-> "output"])

\* lines 128-159: locate the output file; raise if there is none, else complete.
TaskFinalize ==
    /\ pc = "finalize"
    /\ IF ~result.output_ok
       THEN TaskExcept(DocumentNotFound)
       ELSE /\ project' = TaskCompleteRow
            /\ pc' = "notify_completed"
            /\ exc' = exc
    /\ UNCHANGED <<document_type, result, genVars, llmVars, designVars, pageVars, wsVars, restVars>>

TaskNotifyCompleted ==
    Notify("notify_completed", "finally", CompletedEvent(project.output_path))

TaskNotifyError == Notify("notify_error", "finally", ErrorEvent(exc))

\* lines 189-190: db.close() writes nothing.
TaskFinally ==
    /\ pc = "finally"
    /\ pc' = "done"
    /\ UNCHANGED <<project, document_type, result, exc, genVars, llmVars, designVars, pageVars, wsVars, restVars>>

----
\* backend/api/projects.py

\* Faulty variant: a project is cancelled whatever its status.
CancelAllowedAlways == TRUE

\* lines 206-214: a project that is neither pending nor processing is refused
\* with status code 400 and left as it is.
CancelAllowed == project.status \in {"pending", "processing"}

CancelRow == Commit(project, [status |-> "cancelled"])

cancel_project ==
    /\ IF CancelAllowed
       THEN project' = CancelRow
       ELSE project' = project
    /\ UNCHANGED <<document_type, taskVars, genVars, llmVars, designVars, pageVars, wsVars, restVars>>

\* lines 159-165: every field the client set is assigned; ProjectUpdate has title,
\* description and status, of which only status is part of the model.
UpdateRow(update_data) == Commit(project, update_data)

update_project ==
    /\ \E update_data \in {<<>>} \cup [{"status"} -> ProjectStatus] :
          project' = UpdateRow(update_data)
    /\ UNCHANGED <<document_type, taskVars, genVars, llmVars, designVars, pageVars, wsVars, restVars>>

----
\* MultiSlidePPTGenerator

\* The type tags an outline gives its slides; a slide may carry none.
SlideTypes == {"cover"}
SlideData == SlideTypes \cup {None}

\* slide_data.get('type', 'content')
SlideType(slide_data) == IF slide_data = None THEN "content" ELSE slide_data

\* The format specification :02d.
Pad2(n) == IF n < 10 THEN "0" \o ToString(n) ELSE ToString(n)

\* line 135: f"slide_{slide_number:02d}_{slide_type}.html"
FileName(slide_number, slide_type) ==
    "slide_" \o Pad2(slide_number) \o "_" \o slide_type \o ".html"

\* Faulty variant: the next file is named with the slide's own type tag.
NextFileOwnType(sd, n) == IF n < Len(sd) THEN FileName(n + 1, SlideType(sd[n])) ELSE None

\* lines 138-139: the neighbours' file names, None at either end.
PrevFile(sd, n) == IF n > 1 THEN FileName(n - 1, SlideType(sd[n - 1])) ELSE None
NextFile(sd, n) == IF n < Len(sd) THEN FileName(n + 1, SlideType(sd[n + 1])) ELSE None

\* lines 127-150: one entry per slide, in input order; slide_number = i + 1 for
\* the 0-based index i.
CreateSlidesMetadata(sd) ==
    [n \in 1..Len(sd) |->
        [slide_number |-> n,
         file_name    |-> FileName(n, SlideType(sd[n])),
         type         |-> SlideType(sd[n]),
         prev         |-> PrevFile(sd, n),
         next         |-> NextFile(sd, n)]]

\* Every list of at most MaxSlides slides.
SlidesInputs == UNION {[1..n -> SlideData] : n \in 0..MaxSlides}

\* line 260: ppt_dir / "slides" / slide_meta['file_name']
SlidePath(slide_meta) == "slides/" \o slide_meta.file_name

NoGenResult == [status |-> None, error |-> None, slide_files |-> <<>>]

\* lines 174-184: one coroutine per slide, all handed to asyncio.gather at once.
LaunchAll(sd) == [n \in 1..Len(sd) |-> "running"]

\* lines 65-77 and 174-184: directories, metadata, then every slide is launched;
\* generate_ppt suspends in gather.
GenerateStart ==
    /\ pc = "search"
    /\ document_type = "ppt"
    /\ gpc = "idle"
    /\ \E sd \in SlidesInputs :
          /\ slides_data' = sd
          /\ metadata' = CreateSlidesMetadata(sd)
          /\ tasks' = LaunchAll(sd)
    /\ gpc' = "gather"
    /\ UNCHANGED <<llmVars, designVars, pageVars, wsVars, restVars, project, document_type, taskVars,
                   ppt_dir, slide_files, gen_result>>

\* Faulty variant: a slide is numbered when it completes.
SlideReturnRenumbers(n) ==
    /\ gpc = "gather"
    /\ tasks[n] = "running"
    /\ tasks' = [tasks EXCEPT ![n] = "returned"]
    /\ ppt_dir' = ppt_dir \cup {SlidePath(metadata[n])}
    /\ metadata' = [metadata EXCEPT ![n].slide_number =
                        1 + Cardinality({m \in DOMAIN tasks : tasks[m] = "returned"})]
    /\ UNCHANGED <<llmVars, designVars, pageVars, wsVars, restVars, project, document_type, taskVars,
                   gpc, slides_data, slide_files, gen_result>>

\* _generate_single_slide lines 205-264: render, write the file, return its path.
SlideWritten(n) == ppt_dir \cup {SlidePath(metadata[n])}

SlideReturn(n) ==
    /\ gpc = "gather"
    /\ tasks[n] = "running"
    /\ tasks' = [tasks EXCEPT ![n] = "returned"]
    /\ ppt_dir' = SlideWritten(n)
    /\ UNCHANGED <<llmVars, designVars, pageVars, wsVars, restVars, project, document_type, taskVars,
                   gpc, slides_data, metadata, slide_files, gen_result>>

\* Faulty variant: the file is written before the failure, and stays.
SlideFailedLeavesFile(n) == ppt_dir \cup {SlidePath(metadata[n])}

\* lines 266-268: the template lookup, the rendering or the write raised; the
\* exception is logged and raised again, no file is left.
SlideFailed(n) == ppt_dir

SlideRaise(n) ==
    /\ gpc = "gather"
    /\ tasks[n] = "running"
    /\ tasks' = [tasks EXCEPT ![n] = "raised"]
    /\ ppt_dir' = SlideFailed(n)
    /\ UNCHANGED <<llmVars, designVars, pageVars, wsVars, restVars, project, document_type, taskVars,
                   gpc, slides_data, metadata, slide_files, gen_result>>

\* Faulty variant: gather without return_exceptions resumes at the first exception.
GatherFirstException ==
    \/ \A n \in DOMAIN tasks : tasks[n] # "running"
    \/ \E n \in DOMAIN tasks : tasks[n] = "raised"

\* line 184: gather(*tasks, return_exceptions=True) resumes once every task is over.
GatherDone == \A n \in DOMAIN tasks : tasks[n] # "running"

\* Faulty variant: the result of every task is appended, an exception included.
CollectAll(n) == [m \in 1..n |-> SlidePath(metadata[m])]

\* lines 187-195: the paths of the tasks that returned, in input order.
RECURSIVE Collect(_)
Collect(n) ==
    IF n = 0 THEN <<>>
    ELSE IF tasks[n] = "returned"
         THEN Append(Collect(n - 1), SlidePath(metadata[n]))
         ELSE Collect(n - 1)

\* lines 415-451: index.html and presenter.html; a failure to render or write one
\* is logged and swallowed.
NavigationPages == SUBSET {"index.html", "presenter.html"}

\* lines 430 and 443: both templates are rendered with metadata=metadata and
\* nothing else; each lists the slides of the metadata it is given.
IndexListing(md) == {md[n].slide_number : n \in DOMAIN md}
PresenterListing(md) == {md[n].slide_number : n \in DOMAIN md}

\* lines 141-150: a metadata entry has no field for the outcome of its slide, so
\* no listed slide can be shown as failed.
MarkedFailed(md) ==
    {md[n].slide_number : n \in {m \in DOMAIN md : "status" \in DOMAIN md[m]}}

\* lines 453-460
MetadataFile == "data/slides_metadata.json"

\* Faulty variant: a slide that raised turns the whole result into an error.
GenFailsOnAnyRaise(files) ==
    IF Len(files) < Len(tasks)
    THEN [status |-> "error", error |-> "slide generation failed", slide_files |-> <<>>]
    ELSE [status |-> "success", error |-> None, slide_files |-> files]

\* lines 90-97
GenSuccess(files) == [status |-> "success", error |-> None, slide_files |-> files]

\* lines 94-95: the entry points a success result names, index_page and
\* presenter_page, as paths under ppt_dir.
EntryPoints(r) == IF r.status = "success" THEN {"index.html", "presenter.html"} ELSE {}

\* lines 99-104
GenError(m) == [status |-> "error", error |-> m, slide_files |-> <<>>]

\* lines 184-195 and 79-104: gather resumed; collect, write the navigation pages,
\* save the metadata (which may raise), return.
GenerateFinish ==
    /\ gpc = "gather"
    /\ GatherDone
    /\ slide_files' = Collect(Len(tasks))
    /\ \E pages \in NavigationPages :
          \/ /\ ppt_dir' = ppt_dir \cup pages \cup {MetadataFile}
             /\ gen_result' = GenSuccess(slide_files')
          \/ /\ ppt_dir' = ppt_dir \cup pages
             /\ \E m \in SaveErrors : gen_result' = GenError(m)
    /\ gpc' = "returned"
    /\ UNCHANGED <<llmVars, designVars, pageVars, wsVars, restVars, project, document_type, taskVars,
                   slides_data, metadata, tasks>>

----
\* LLMClient (src/llm/client.py)

\* Bounds of the client model.
MaxRetries == 1
MaxProse == 1

\* config.py lines 9-17
LLMProvider ==
    {"openai", "azure_openai", "anthropic", "zhipu", "qwen", "deepseek", "ollama"}

\* client.py lines 259-265: the providers the structured path is used for.
OpenAICompatibleProviders == {"openai", "azure_openai", "deepseek", "zhipu", "qwen"}

\* config.py lines 23-31 and 83-87: the defaults.
DefaultConfig == [provider |-> "openai", max_retries |-> 3]
ModelName == "gpt-4o-mini"

\* config.py lines 38-41: the value of LLM_BASE_URL.
BaseUrl == "https://llm.example/v1"

Configs == [provider : LLMProvider, max_retries : 0..MaxRetries]

\* A message is a sequence of chunks of text.  str.lower() of a chunk:
LowerChunk(w) ==
    CASE w = "InvalidApiKey" -> "invalidapikey"
      [] w = "ModelNotFound" -> "modelnotfound"
      [] w = "Connection" -> "connection"
      [] w = "DASHSCOPE_API_KEY" -> "dashscope_api_key"
      [] w = "Model" -> "model"
      [] OTHER -> w

Lower(text) == [i \in DOMAIN text |-> LowerChunk(text[i])]

\* The substrings the client tests for that a chunk contains.
Probes(w) ==
    CASE w = "invalid_api_key" -> {"invalid_api_key", "api_key"}
      [] w = "dashscope_api_key" -> {"api_key"}
      [] w = "InvalidApiKey" -> {"InvalidApiKey"}
      [] w = "ModelNotFound" -> {"ModelNotFound"}
      [] w = "modelnotfound" -> {"model"}
      [] w = "model" -> {"model"}
      [] w = "Connection" -> {"Connection"}
      [] w = "connection" -> {"connection"}
      [] OTHER -> {}

\* probe in text
In(probe, text) == \E i \in DOMAIN text : probe \in Probes(text[i])

\* What self._client...create can raise (lines 281, 360, 418): str(e) of the SDK's
\* exception, the kind of failure it stands for, and whether the SDK, built with
\* max_retries=config.max_retries (lines 75-80), sends the request again.
UpstreamErrors ==
    {[kind |-> "auth", retry |-> FALSE, text |-> <<"Error code: 401", "invalid_api_key">>],
     [kind |-> "auth", retry |-> FALSE, text |-> <<"Error code: 401", "InvalidApiKey">>],
     [kind |-> "model", retry |-> FALSE, text |-> <<"Error code: 404", "ModelNotFound">>],
     [kind |-> "model", retry |-> FALSE,
      text |-> <<"Error code: 404 - The", "model", "does not exist">>],
     [kind |-> "connection", retry |-> TRUE, text |-> <<"Connection", "error.">>],
     [kind |-> "upstream", retry |-> TRUE, text |-> <<"Request timed out.">>],
     [kind |-> "upstream", retry |-> FALSE, text |-> <<"Error code: 400">>]}

\* line 281: the structured path got a completion it could not decode into
\* response_model (parse error, schema violation).
DecodeFailures ==
    {[kind |-> "decode", retry |-> FALSE, text |-> <<"validation failed">>]}

NoAnswer == [kind |-> "none", retry |-> FALSE, text |-> <<>>]
Answered == [kind |-> "ok", retry |-> FALSE, text |-> <<>>]

\* What a call delivers to its caller.
NoOutcome == [kind |-> "none", value |-> <<>>, error |-> <<>>]
Value(v) == [kind |-> "value", value |-> v, error |-> <<>>]
Raise(d) == [kind |-> "error", value |-> <<>>, error |-> d]

\* Chunks of a completion text.
Space == " "
\* The fence is the run of three backquotes that opens and closes a code block.
Fence == "[fence]"
FenceJson == "[fence]json"
JsonConforming == "{conforming}"
JsonViolating == "{violating}"
JsonMalformed == "{malformed"

\* JSON that fits response_model, JSON that does not, malformed JSON, no text.
Payloads == {<<JsonConforming>>, <<JsonViolating>>, <<JsonMalformed>>, <<>>}

\* Up to MaxProse chunks of prose, set off by white space.
Leads == {<<>>} \cup {[i \in 1..(k + 1) |-> IF i <= k THEN "prose" ELSE Space] : k \in 1..MaxProse}
Trails == {<<>>} \cup {[i \in 1..(k + 1) |-> IF i = 1 THEN Space ELSE "prose"] : k \in 1..MaxProse}
Opens == {<<>>, <<FenceJson, Space>>, <<Fence, Space>>}
Closes == {<<>>, <<Space, Fence>>}

\* line 337: the texts the model may answer with.
ModelTexts ==
    {lead \o open \o J \o close \o trail :
        lead \in Leads, open \in Opens, J \in Payloads, close \in Closes, trail \in Trails}

\* str.strip()
RECURSIVE LStrip(_)
LStrip(t) == IF t # <<>> /\ Head(t) = Space THEN LStrip(Tail(t)) ELSE t

RECURSIVE RStrip(_)
RStrip(t) == IF t # <<>> /\ t[Len(t)] = Space THEN RStrip(SubSeq(t, 1, Len(t) - 1)) ELSE t

Strip(t) == RStrip(LStrip(t))

\* lines 341-342: content.startswith of the json fence, content[7:]
DropFenceJson(t) == IF t # <<>> /\ Head(t) = FenceJson THEN Tail(t) ELSE t

\* lines 343-344: content.startswith of the fence, content[3:]; of the json
\* fence the chunk "json" stays.
DropFence(t) ==
    IF t # <<>> /\ Head(t) = Fence THEN Tail(t)
    ELSE IF t # <<>> /\ Head(t) = FenceJson THEN <<"json">> \o Tail(t)
    ELSE t

\* lines 345-346: content.endswith of the fence, content[:-3]
DropLastFence(t) ==
    IF t # <<>> /\ t[Len(t)] = Fence THEN SubSeq(t, 1, Len(t) - 1) ELSE t

\* lines 340-347
Unfence(text) == Strip(DropLastFence(DropFence(DropFenceJson(Strip(text)))))

\* line 350: json.loads accepts one JSON value and nothing else.
JsonLoads(t) ==
    IF t \in {<<JsonConforming>>, <<JsonViolating>>}
    THEN Value(t)
    ELSE Raise(<<"JSONDecodeError">>)

\* lines 353-354: response_model(**data)
Validate(data) ==
    IF data = <<JsonConforming>> THEN Value(data) ELSE Raise(<<"ValidationError">>)

\* lines 336-355: what _fallback_structured_response makes of a completion text.
ParseFallback(text) ==
    LET loaded == JsonLoads(Unfence(text))
    IN  IF loaded.kind = "value" THEN Validate(loaded.value) ELSE loaded

\* lines 372-389: the exception _openai_chat_completion raises for the one the
\* SDK raised.
OpenAIChatError(provider, e) ==
    IF provider = "qwen" /\ In("InvalidApiKey", e)
    THEN <<"Invalid Qwen API key. Please set", "DASHSCOPE_API_KEY">>
    ELSE IF provider = "qwen" /\ In("ModelNotFound", e)
    THEN <<"Model", ModelName, "not found for Qwen">>
    ELSE IF provider = "zhipu" /\ In("invalid_api_key", e)
    THEN <<"Invalid Zhipu AI API key. Please check your API key">>
    ELSE IF provider = "deepseek" /\ In("invalid_api_key", e)
    THEN <<"Invalid DeepSeek API key. Please check your API key">>
    ELSE IF provider = "ollama" /\ In("Connection", e)
    THEN <<"Failed to connect to Ollama. Please make sure Ollama is running (ollama serve)">>
    ELSE e

\* lines 223-230: the exception chat_completion raises for the one it caught.
ChatCompletionError(provider, e) ==
    IF In("api_key", Lower(e))
    THEN <<"API key error", provider, "Please check your API key">>
    ELSE IF In("model", Lower(e))
    THEN <<"Model error", provider, "Model", ModelName, "may not be available">>
    ELSE IF In("base_url", Lower(e)) \/ In("connection", Lower(e))
    THEN <<"Connection error", provider, "Please check base_url:", BaseUrl>>
    ELSE e

\* lines 178-181 and 202-230: what the caller of chat_completion gets for the
\* SDK's exception; _anthropic_chat_completion lets it through unchanged.
Delivered(provider, raw) ==
    ChatCompletionError(provider,
        IF provider = "anthropic" THEN raw ELSE OpenAIChatError(provider, raw))

\* The SDK sends a failed request again while it has retries left.
SdkRetries(e) == e.retry /\ attempts < config.max_retries

\* lines 157-181: chat_completion is called; it suspends in the SDK's create.
ChatCompletionCall ==
    /\ lpc = "idle"
    /\ entry' = "chat_completion"
    /\ lpc' = "chat"
    /\ UNCHANGED <<config, instructor_installed, handler, fallbacks,
                   attempts, n_requests, last, content, outcome, runVars, designVars, pageVars, wsVars, restVars>>

\* lines 310-334: _fallback_structured_response builds the prompt and calls
\* chat_completion, which suspends in the SDK's create.
FallbackCall(h) ==
    /\ fallbacks' = fallbacks + 1
    /\ handler' = h
    /\ attempts' = 0
    /\ lpc' = "chat"

\* lines 253-298: get_structured_response is called.  A missing instructor goes
\* to the handler of ImportError, a provider outside the list calls the fallback
\* within the try block, the others suspend in instructor's create.
GetStructuredResponseCall ==
    /\ lpc = "idle"
    /\ entry' = "get_structured_response"
    /\ IF ~instructor_installed THEN FallbackCall("except")
       ELSE IF config.provider \notin OpenAICompatibleProviders THEN FallbackCall("try")
       ELSE /\ lpc' = "instructor"
            /\ UNCHANGED <<handler, fallbacks, attempts>>
    /\ UNCHANGED <<config, instructor_installed, n_requests, last, content,
                   outcome, runVars, designVars, pageVars, wsVars, restVars>>

\* The request failed and the SDK sends it again.
SdkRetry ==
    /\ lpc \in {"instructor", "chat"}
    /\ \E e \in UpstreamErrors :
          /\ SdkRetries(e)
          /\ last' = e
    /\ attempts' = attempts + 1
    /\ n_requests' = n_requests + 1
    /\ UNCHANGED <<config, instructor_installed, entry, lpc, handler, fallbacks,
                   content, outcome, runVars, designVars, pageVars, wsVars, restVars>>

\* lines 281-290: the structured path returns the decoded response.
InstructorReturn ==
    /\ lpc = "instructor"
    /\ n_requests' = n_requests + 1
    /\ last' = Answered
    /\ outcome' = Value(<<JsonConforming>>)
    /\ lpc' = "returned"
    /\ UNCHANGED <<config, instructor_installed, entry, handler, fallbacks,
                   attempts, content, runVars, designVars, pageVars, wsVars, restVars>>

\* lines 281 and 295-298: the structured path raised; every exception goes to the
\* fallback.
InstructorRaise ==
    /\ lpc = "instructor"
    /\ \E e \in UpstreamErrors \cup DecodeFailures :
          /\ ~SdkRetries(e)
          /\ last' = e
    /\ n_requests' = n_requests + 1
    /\ FallbackCall("except")
    /\ UNCHANGED <<config, instructor_installed, entry, content, outcome, runVars, designVars, pageVars, wsVars, restVars>>

\* An exception leaves _fallback_structured_response.  Called within the try
\* block (line 272) it is caught at line 292 or 295 and the fallback is called
\* again; called from a handler (lines 294, 298) it reaches the caller.
FallbackRaised(d) ==
    IF handler = "try"
    THEN /\ FallbackCall("except")
         /\ outcome' = outcome
    ELSE /\ outcome' = Raise(d)
         /\ lpc' = "raised"
         /\ UNCHANGED <<handler, fallbacks, attempts>>

\* lines 181-200 and 336-355: the upstream answered; chat_completion returns the
\* result, and the fallback, when it is the caller, parses the content.
ChatReturn ==
    /\ lpc = "chat"
    /\ n_requests' = n_requests + 1
    /\ last' = Answered
    /\ \E text \in ModelTexts :
          /\ content' = text
          /\ IF entry = "chat_completion"
             THEN /\ outcome' = Value(text)
                  /\ lpc' = "returned"
                  /\ UNCHANGED <<handler, fallbacks, attempts>>
             ELSE IF ParseFallback(text).kind = "value"
             THEN /\ outcome' = ParseFallback(text)
                  /\ lpc' = "returned"
                  /\ UNCHANGED <<handler, fallbacks, attempts>>
             ELSE FallbackRaised(ParseFallback(text).error)
    /\ UNCHANGED <<config, instructor_installed, entry, runVars, designVars, pageVars, wsVars, restVars>>

\* lines 202-230 and 372-389: the request failed for good; chat_completion raises.
ChatRaise ==
    /\ lpc = "chat"
    /\ n_requests' = n_requests + 1
    /\ \E e \in UpstreamErrors :
          /\ ~SdkRetries(e)
          /\ last' = e
          /\ IF entry = "chat_completion"
             THEN /\ outcome' = Raise(Delivered(config.provider, e.text))
                  /\ lpc' = "raised"
                  /\ UNCHANGED <<handler, fallbacks, attempts>>
             ELSE FallbackRaised(Delivered(config.provider, e.text))
    /\ UNCHANGED <<config, instructor_installed, entry, content, runVars, designVars, pageVars, wsVars, restVars>>

----
\* DesignCoordinator (src/agents/ppt/design_coordinator.py).  A text is a
\* sequence of chunks; a colour is spelled character by character, every other
\* string is one chunk, and the JSON literals true, false and null are the
\* chunks of that name.

\* lines 118-124: the style tags _build_design_prompt has a guide for.
KnownStyles == {"ted", "business", "academic", "creative", "simple"}

\* The tags a caller passes: the known ones and one the code has no entry for.
Styles == KnownStyles \cup {"custom"}

\* lines 18-42: the fields of DesignSpec, all of them required.
ColourFields ==
    {"primary_color", "secondary_color", "accent_color", "background_color",
     "text_color", "text_secondary_color"}
StrFields ==
    ColourFields \cup {"title_font_size", "content_font_size", "font_family",
                       "layout_style", "spacing", "border_radius", "animation_style"}
BoolFields == {"use_shadows", "use_gradients"}
DesignFields == StrFields \cup BoolFields \cup {"chart_colors"}

JsonLiterals == {"null", "true", "false"}

\* lines 240-257
TedDefault ==
    [primary_color |-> <<"#", "d", "c", "2", "6", "2", "6">>,
     secondary_color |-> <<"#", "1", "f", "2", "9", "3", "7">>,
     accent_color |-> <<"#", "f", "b", "b", "f", "2", "4">>,
     background_color |-> <<"#", "f", "f", "f", "f", "f", "f">>,
     text_color |-> <<"#", "1", "f", "2", "9", "3", "7">>,
     text_secondary_color |-> <<"#", "6", "b", "7", "2", "8", "0">>,
     title_font_size |-> <<"4rem">>,
     content_font_size |-> <<"1.5rem">>,
     font_family |-> <<"'Segoe UI', 'Microsoft YaHei', sans-serif">>,
     layout_style |-> <<"minimal">>,
     spacing |-> <<"spacious">>,
     border_radius |-> <<"0px">>,
     use_shadows |-> <<"false">>,
     use_gradients |-> <<"false">>,
     animation_style |-> <<"none">>,
     chart_colors |-> <<<<"#", "d", "c", "2", "6", "2", "6">>,
                       <<"#", "1", "f", "2", "9", "3", "7">>,
                       <<"#", "f", "b", "b", "f", "2", "4">>,
                       <<"#", "6", "b", "7", "2", "8", "0">>,
                       <<"#", "f", "9", "7", "3", "1", "6">>>>]

\* lines 258-275
BusinessDefault ==
    [primary_color |-> <<"#", "2", "5", "6", "3", "e", "b">>,
     secondary_color |-> <<"#", "1", "d", "4", "e", "d", "8">>,
     accent_color |-> <<"#", "3", "b", "8", "2", "f", "6">>,
     background_color |-> <<"#", "f", "f", "f", "f", "f", "f">>,
     text_color |-> <<"#", "1", "f", "2", "9", "3", "7">>,
     text_secondary_color |-> <<"#", "6", "b", "7", "2", "8", "0">>,
     title_font_size |-> <<"2.5rem">>,
     content_font_size |-> <<"1rem">>,
     font_family |-> <<"'Segoe UI', 'Microsoft YaHei', sans-serif">>,
     layout_style |-> <<"business">>,
     spacing |-> <<"normal">>,
     border_radius |-> <<"0.5rem">>,
     use_shadows |-> <<"true">>,
     use_gradients |-> <<"true">>,
     animation_style |-> <<"subtle">>,
     chart_colors |-> <<<<"#", "2", "5", "6", "3", "e", "b">>,
                       <<"#", "3", "b", "8", "2", "f", "6">>,
                       <<"#", "6", "0", "a", "5", "f", "a">>,
                       <<"#", "9", "3", "c", "5", "f", "d">>,
                       <<"#", "d", "b", "e", "a", "f", "e">>>>]

\* lines 276-293
SimpleDefault ==
    [primary_color |-> <<"#", "1", "f", "2", "9", "3", "7">>,
     secondary_color |-> <<"#", "3", "7", "4", "1", "5", "1">>,
     accent_color |-> <<"#", "4", "b", "5", "5", "6", "3">>,
     background_color |-> <<"#", "f", "f", "f", "f", "f", "f">>,
     text_color |-> <<"#", "1", "f", "2", "9", "3", "7">>,
     text_secondary_color |-> <<"#", "6", "b", "7", "2", "8", "0">>,
     title_font_size |-> <<"2.5rem">>,
     content_font_size |-> <<"1rem">>,
     font_family |-> <<"'Segoe UI', 'Microsoft YaHei', sans-serif">>,
     layout_style |-> <<"minimal">>,
     spacing |-> <<"spacious">>,
     border_radius |-> <<"0px">>,
     use_shadows |-> <<"false">>,
     use_gradients |-> <<"false">>,
     animation_style |-> <<"none">>,
     chart_colors |-> <<<<"#", "1", "f", "2", "9", "3", "7">>,
                       <<"#", "3", "7", "4", "1", "5", "1">>,
                       <<"#", "4", "b", "5", "5", "6", "3">>,
                       <<"#", "6", "b", "7", "2", "8", "0">>,
                       <<"#", "9", "c", "a", "3", "a", "f">>>>]

\* A design the model chose, as the prompt asks for it (lines 205-223).
ModelDesign ==
    [primary_color |-> <<"#", "0", "f", "7", "6", "6", "e">>,
     secondary_color |-> <<"#", "1", "1", "5", "e", "5", "9">>,
     accent_color |-> <<"#", "f", "5", "9", "e", "0", "b">>,
     background_color |-> <<"#", "f", "f", "f", "f", "f", "f">>,
     text_color |-> <<"#", "1", "f", "2", "9", "3", "7">>,
     text_secondary_color |-> <<"#", "6", "b", "7", "2", "8", "0">>,
     title_font_size |-> <<"2.5rem">>,
     content_font_size |-> <<"1rem">>,
     font_family |-> <<"'Segoe UI', 'Microsoft YaHei', sans-serif">>,
     layout_style |-> <<"modern">>,
     spacing |-> <<"normal">>,
     border_radius |-> <<"1rem">>,
     use_shadows |-> <<"true">>,
     use_gradients |-> <<"true">>,
     animation_style |-> <<"dynamic">>,
     chart_colors |-> <<<<"#", "0", "f", "7", "6", "6", "e">>,
                       <<"#", "1", "4", "b", "8", "a", "6">>,
                       <<"#", "5", "e", "e", "a", "d", "4">>,
                       <<"#", "f", "5", "9", "e", "0", "b">>,
                       <<"#", "f", "d", "e", "6", "8", "a">>>>]

\* lines 239-294: default_designs, built anew by every call.
default_designs ==
    [s \in {"ted", "business", "simple"} |->
        CASE s = "ted" -> TedDefault
          [] s = "business" -> BusinessDefault
          [] s = "simple" -> SimpleDefault]

\* Faulty variant: the record is looked up under the tag of the latest
\* generate_design_spec call instead of the tag asked for.
GetDefaultOfLatestCall(s) ==
    IF style \in DOMAIN default_designs
    THEN default_designs[style] ELSE default_designs["business"]

\* line 296: default_designs.get(style, default_designs['business'])
get_default_design(s) ==
    IF s \in DOMAIN default_designs THEN default_designs[s] ELSE default_designs["business"]

\* The JSON documents a response may hold, by the chunk that stands for each.
DesignDocuments ==
    [c \in {"{design}", "{design without chart_colors}", "{design, primary_color null}",
            "{design, primary_color red}", "{design, three chart_colors}"} |->
        CASE c = "{design}" -> ModelDesign
          [] c = "{design without chart_colors}" ->
                [f \in DesignFields \ {"chart_colors"} |-> ModelDesign[f]]
          [] c = "{design, primary_color null}" ->
                [ModelDesign EXCEPT !.primary_color = <<"null">>]
          [] c = "{design, primary_color red}" ->
                [ModelDesign EXCEPT !.primary_color = <<"r", "e", "d">>]
          [] c = "{design, three chart_colors}" ->
                [ModelDesign EXCEPT !.chart_colors = SubSeq(ModelDesign.chart_colors, 1, 3)]]

DesignPayloads == {<<c>> : c \in DOMAIN DesignDocuments} \cup {<<JsonMalformed>>, <<>>}

\* lines 78-85: what chat_completion hands back: a dict without "content",
\* one whose content is None, or one whose content is a text.
NoResponse == [content |-> "none", text |-> <<>>]
DesignResponses ==
    {[content |-> "absent", text |-> <<>>], [content |-> "null", text |-> <<>>]}
    \cup {[content |-> "text", text |-> open \o J \o close] :
            open \in {<<>>, <<FenceJson, Space>>, <<Fence, Space>>},
            J \in DesignPayloads, close \in {<<>>, <<Space, Fence>>}}

\* lines 88-91: if content.startswith(json fence): content[7:]
\*              elif content.startswith(fence): content[3:]
DesignDropOpen(t) ==
    IF t # <<>> /\ Head(t) = FenceJson THEN Tail(t)
    ELSE IF t # <<>> /\ Head(t) = Fence THEN Tail(t)
    ELSE t

\* lines 85-94
DesignUnfence(text) == Strip(DropLastFence(DesignDropOpen(Strip(text))))

\* line 97: json.loads(content)
DesignJsonLoads(t) ==
    IF Len(t) = 1 /\ t[1] \in DOMAIN DesignDocuments
    THEN [ok |-> TRUE, dict |-> DesignDocuments[t[1]]]
    ELSE [ok |-> FALSE, dict |-> <<>>]

IsStr(v) == \A i \in DOMAIN v : v[i] \notin JsonLiterals
IsBool(v) == v \in {<<"true">>, <<"false">>}

\* line 98: DesignSpec(**design_dict): every field present and of its type
\* (lines 18-42); the class has no validator of its own.
ValidDesign(d) ==
    /\ DesignFields \subseteq DOMAIN d
    /\ \A f \in StrFields : IsStr(d[f])
    /\ \A f \in BoolFields : IsBool(d[f])
    /\ \A i \in DOMAIN d.chart_colors : IsStr(d.chart_colors[i])

\* lines 96-100: the try block.
ParseDesign(text) ==
    LET loaded == DesignJsonLoads(DesignUnfence(text))
    IN  IF loaded.ok /\ ValidDesign(loaded.dict)
        THEN [ok |-> TRUE, dict |-> [f \in DesignFields |-> loaded.dict[f]]]
        ELSE [ok |-> FALSE, dict |-> <<>>]

NoDesign == [f \in DesignFields |-> <<>>]

\* line 57: generate_design_spec(topic, style, ...) is called.
GenerateDesignSpecCall(s) ==
    /\ dpc # "chat"
    /\ dpc' = "chat"
    /\ style' = s
    /\ design_response' = NoResponse
    /\ design' = NoDesign
    /\ design_error' = <<>>
    /\ UNCHANGED defaults_returned
    /\ UNCHANGED <<runVars, llmVars, pageVars, wsVars, restVars>>

\* line 78: the awaited chat_completion raises; no handler encloses the call.
DesignChatRaises(e) ==
    /\ dpc = "chat"
    /\ dpc' = "raised"
    /\ design_error' = Delivered(config.provider, e.text)
    /\ UNCHANGED <<style, design_response, design, defaults_returned>>
    /\ UNCHANGED <<runVars, llmVars, pageVars, wsVars, restVars>>

\* lines 78-104: chat_completion returns r.
DesignChatReturns(r) ==
    /\ dpc = "chat"
    /\ design_response' = r
    /\ IF r.content = "null"
       THEN \* line 85: None has no strip
            /\ dpc' = "raised"
            /\ design_error' = <<"AttributeError">>
            /\ UNCHANGED <<design, defaults_returned>>
       ELSE LET parsed == ParseDesign(r.text)
            IN  /\ dpc' = "returned"
                /\ IF parsed.ok
                   THEN /\ design' = parsed.dict
                        /\ UNCHANGED defaults_returned
                   ELSE \* lines 101-104
                        /\ design' = get_default_design(style)
                        /\ defaults_returned' =
                             defaults_returned \cup {<<style, get_default_design(style)>>}
                /\ UNCHANGED design_error
    /\ UNCHANGED style
    /\ UNCHANGED <<runVars, llmVars, pageVars, wsVars, restVars>>

\* lines 236-296: a call of _get_default_design on its own.
GetDefaultDesignCall(s) ==
    /\ defaults_returned' = defaults_returned \cup {<<s, get_default_design(s)>>}
    /\ UNCHANGED <<style, dpc, design_response, design, design_error>>
    /\ UNCHANGED <<runVars, llmVars, pageVars, wsVars, restVars>>

----
\* PageAgent (src/agents/ppt/page_agent.py).

FenceHtml == "[fence]html"

\* line 82: re.search of '<' followed by a letter or '!'.  Of the chunks of a
\* page text these begin with such a marker; "</div>" and "1 < 2" hold a '<'
\* that is followed by neither.
MarkerChunks == {"<div>", "<!DOCTYPE html>"}

PageBodies == {<<"<div>", "</div>">>, <<"<!DOCTYPE html>", "<div>", "</div>">>, <<"1 < 2">>, <<>>}

\* lines 69-76: the texts the model may answer the content prompt with.
PageTexts ==
    {lead \o open \o body \o close \o trail :
        lead \in {<<>>, <<"prose", Space>>},
        open \in {<<>>, <<FenceHtml, Space>>, <<Fence, Space>>},
        body \in PageBodies,
        close \in {<<>>, <<Space, Fence>>},
        trail \in {<<>>, <<Space, "prose">>}}

PageResponses ==
    {[content |-> "absent", text |-> <<>>], [content |-> "null", text |-> <<>>]}
    \cup {[content |-> "text", text |-> t] : t \in PageTexts}

\* lines 355-363: the answers to the narration prompt.
SpeechResponses ==
    {[content |-> "absent", text |-> <<>>], [content |-> "null", text |-> <<>>],
     [content |-> "text", text |-> <<"notes">>],
     [content |-> "text", text |-> <<Space, "notes", Space>>]}

\* match.start() of line 82 and line 97, 0 for no match.
FirstMarker(t) ==
    IF \E i \in DOMAIN t : t[i] \in MarkerChunks
    THEN CHOOSE i \in DOMAIN t :
            /\ t[i] \in MarkerChunks
            /\ \A j \in 1..(i - 1) : t[j] \notin MarkerChunks
    ELSE 0

\* lines 82-85: html[match.start():] when there is a match
CutToMarker(t) == IF FirstMarker(t) > 0 THEN SubSeq(t, FirstMarker(t), Len(t)) ELSE t

\* lines 88-89: html.startswith of the html fence, html[7:]
DropFenceHtml(t) == IF t # <<>> /\ Head(t) = FenceHtml THEN Tail(t) ELSE t

\* lines 90-91: html.startswith of the fence, html[3:]; of a fence with a
\* language tag the tag stays.
PageDropFence(t) ==
    IF t # <<>> /\ Head(t) = Fence THEN Tail(t)
    ELSE IF t # <<>> /\ Head(t) = FenceHtml THEN <<"html">> \o Tail(t)
    ELSE t

\* lines 76-101: from the content of the response to result["html_content"].
CleanHtml(text) ==
    LET cut == CutToMarker(Strip(text))
        unfenced == Strip(DropLastFence(PageDropFence(DropFenceHtml(cut))))
    IN  Strip(CutToMarker(unfenced))

NoPage == [keys |-> {}, html_content |-> <<>>, speech_notes |-> <<>>]

\* line 46: generate_page_html is called; global_context.speech_scene is scene.
GeneratePageHtmlCall(scene) ==
    /\ ppc \notin {"content_chat", "speech_chat"}
    /\ ppc' = "content_chat"
    /\ speech_scene' = scene
    /\ page_response' = NoResponse
    /\ page_result' = NoPage
    /\ page_error' = <<>>
    /\ UNCHANGED <<runVars, llmVars, designVars, wsVars, restVars>>

\* lines 69-73: the awaited chat_completion raises; no handler encloses it.
PageChatRaises(e) ==
    /\ ppc = "content_chat"
    /\ ppc' = "raised"
    /\ page_error' = Delivered(config.provider, e.text)
    /\ UNCHANGED <<speech_scene, page_response, page_result>>
    /\ UNCHANGED <<runVars, llmVars, designVars, wsVars, restVars>>

\* lines 69-110: chat_completion returns r for the content prompt.
PageChatReturns(r) ==
    /\ ppc = "content_chat"
    /\ page_response' = r
    /\ IF r.content = "null"
       THEN \* line 76: None has no strip
            /\ ppc' = "raised"
            /\ page_error' = <<"AttributeError">>
            /\ UNCHANGED page_result
       ELSE IF speech_scene # None
       THEN \* lines 104-105: the narration call is awaited
            /\ ppc' = "speech_chat"
            /\ UNCHANGED <<page_result, page_error>>
       ELSE \* lines 101, 110
            /\ ppc' = "returned"
            /\ page_result' = [keys |-> {"html_content"},
                               html_content |-> CleanHtml(r.text),
                               speech_notes |-> <<>>]
            /\ UNCHANGED page_error
    /\ UNCHANGED speech_scene
    /\ UNCHANGED <<runVars, llmVars, designVars, wsVars, restVars>>

\* lines 355-359 within line 105: the narration call raises; neither
\* _generate_speech_notes nor generate_page_html handles it.
SpeechChatRaises(e) ==
    /\ ppc = "speech_chat"
    /\ ppc' = "raised"
    /\ page_error' = Delivered(config.provider, e.text)
    /\ UNCHANGED <<speech_scene, page_response, page_result>>
    /\ UNCHANGED <<runVars, llmVars, designVars, wsVars, restVars>>

\* lines 355-363 and 105-110: the narration call returns r.
SpeechChatReturns(r) ==
    /\ ppc = "speech_chat"
    /\ IF r.content = "null"
       THEN \* line 361: None has no strip
            /\ ppc' = "raised"
            /\ page_error' = <<"AttributeError">>
            /\ UNCHANGED page_result
       ELSE /\ ppc' = "returned"
            /\ page_result' = [keys |-> {"html_content", "speech_notes"},
                               html_content |-> CleanHtml(page_response.text),
                               speech_notes |-> Strip(r.text)]
            /\ UNCHANGED page_error
    /\ UNCHANGED <<speech_scene, page_response>>
    /\ UNCHANGED <<runVars, llmVars, designVars, wsVars, restVars>>

----
\* The websocket endpoint and cancel_project with its caller and its answer.

\* Bound: the websockets the endpoint is opened with.
MaxSockets == 2
WebSockets == 1..MaxSockets

\* The one socket a client uses where each client opens one.
OwnSocket(client) == IF client = Owner THEN 1 ELSE 2

\* main.py line 107, websocket_manager.py lines 17-21: a client opens its socket.
Connect(client, ws) ==
    /\ client \notin DOMAIN active_connections
    /\ active_connections' = Put(active_connections, client, ws)
    /\ UNCHANGED <<events, last_send, cancel_pc, cancel_response>>
    /\ UNCHANGED <<runVars, llmVars, designVars, pageVars, restVars>>

\* main.py lines 114-115, websocket_manager.py lines 23-27: the client went away.
Disconnect(client) ==
    /\ client \in DOMAIN active_connections
    /\ active_connections' = Del(active_connections, client)
    /\ UNCHANGED <<events, last_send, cancel_pc, cancel_response>>
    /\ UNCHANGED <<runVars, llmVars, designVars, pageVars, restVars>>

\* The answer of cancel_project: the status code, 0 while the handler runs.
NoCancel == [caller |-> None, code |-> 0]
Answer(caller, code) == [caller |-> caller, code |-> code]

\* projects.py lines 191-215: caller asks to cancel the project.  The query of
\* lines 198-201 finds the project only for its owner.
CancelRequest(caller) ==
    /\ cancel_pc = "idle"
    /\ IF caller # Owner
       THEN \* lines 203-204
            /\ cancel_response' = Answer(caller, 404)
            /\ UNCHANGED <<project, cancel_pc>>
       ELSE IF ~CancelAllowed
       THEN \* lines 206-210
            /\ cancel_response' = Answer(caller, 400)
            /\ UNCHANGED <<project, cancel_pc>>
       ELSE \* lines 212-214
            /\ project' = CancelRow
            /\ cancel_pc' = "notify"
            /\ cancel_response' = Answer(caller, 0)
    /\ UNCHANGED <<active_connections, events, last_send>>
    /\ UNCHANGED <<document_type, taskVars, genVars, llmVars, designVars, pageVars, restVars>>

\* projects.py lines 217-225: the project_cancelled message, then the answer.
CancelNotify ==
    /\ cancel_pc = "notify"
    /\ SendPersonalMessage(CancelledEvent, cancel_response.caller)
    /\ cancel_pc' = "idle"
    /\ cancel_response' = Answer(cancel_response.caller, 200)
    /\ UNCHANGED <<runVars, llmVars, designVars, pageVars, restVars>>

----
\* download_document and preview_document (backend/api/documents.py)

NoDocument == [handler |-> None, caller |-> None, code |-> 0]

\* documents.py lines 40 and 85: os.path.exists(project.output_path).  The run
\* stores only a path it found on disk (tasks.py line 144), and nothing of the
\* program removes the file.
OutputExists == project.output_path # None

\* documents.py lines 25-43 and 70-88: the checks both handlers make, as the
\* status code of the answer.
DocumentAnswer(caller) ==
    IF caller # Owner THEN 404
    ELSE IF project.status # "completed" THEN 400
    ELSE IF ~OutputExists THEN 404
    ELSE 200

\* documents.py lines 18-60
download_document(caller) ==
    /\ document_response' =
          [handler |-> "download", caller |-> caller, code |-> DocumentAnswer(caller)]
    /\ UNCHANGED <<runVars, llmVars, designVars, pageVars, wsVars,
                   quotaVars, mgrVars, srvVars, sockVars>>

\* documents.py lines 63-100
preview_document(caller) ==
    /\ document_response' =
          [handler |-> "preview", caller |-> caller, code |-> DocumentAnswer(caller)]
    /\ UNCHANGED <<runVars, llmVars, designVars, pageVars, wsVars,
                   quotaVars, mgrVars, srvVars, sockVars>>

----
\* create_project (backend/api/projects.py) and the monthly count

\* Bound: the documents one user creates.
MaxDocuments == 8

\* database.py lines 25-28
SubscriptionTier == {"free", "pro", "enterprise"}

\* projects.py line 70: the limit of the free tier.
FreeLimit == 5

\* Faulty variant: the request that finds the count at the limit is let through.
QuotaReachedAbove(u) == u.tier = "free" /\ u.count > FreeLimit

\* projects.py line 70
QuotaReached(u) == u.tier = "free" /\ u.count >= FreeLimit

\* projects.py lines 60-103.  get_current_user loads the row and the handler
\* checks, inserts, commits, increments, commits and queues without an await,
\* so one request is one step.
create_project ==
    /\ IF QuotaReached(user)
       THEN \* lines 70-74
            /\ create_response' = 403
            /\ UNCHANGED <<user, n_projects, n_queued>>
       ELSE \* lines 77-103
            /\ user.count < MaxDocuments
            /\ n_projects' = n_projects + 1
            /\ user' = [user EXCEPT !.count = @ + 1]
            /\ n_queued' = n_queued + 1
            /\ create_response' = 201
    /\ UNCHANGED <<runVars, llmVars, designVars, pageVars, wsVars,
                   docVars, mgrVars, srvVars, sockVars>>

----
\* LLMManager (src/llm/manager.py)

\* Bound: the LLMClient objects one manager constructs.
MaxClients == 4

\* An LLMConfig, as far as the configurations of one manager differ:
\* temperature in tenths and max_tokens.
LLMConfigOf(t, m) == [temperature |-> t, max_tokens |-> m]

\* manager.py lines 155-205: _create_default_configs with the environment's
\* defaults (lines 161-162).
DefaultConfigs ==
    [n \in {"default", "query_optimizer", "search_analyzer", "content_synthesizer"} |->
        CASE n = "default" -> LLMConfigOf(7, 4000)
          [] n = "query_optimizer" -> LLMConfigOf(3, 2000)
          [] n = "search_analyzer" -> LLMConfigOf(5, 4000)
          [] n = "content_synthesizer" -> LLMConfigOf(7, 6000)]

\* The names the manager is called with; "custom" is unknown until added.
ConfigNames == {"default", "query_optimizer", "custom"}
\* The configuration add_config is called with, and the kwargs of update_config.
AddedConfigs == {LLMConfigOf(1, 1000)}
UpdateKwargs == {[temperature |-> 2]}

NoCall == [call |-> "none", name |-> "none", returned |-> 0, raised |-> "none"]
CallReturned(call, name, id) == [call |-> call, name |-> name, returned |-> id, raised |-> "none"]
CallRaised(call, name, e) == [call |-> call, name |-> name, returned |-> 0, raised |-> e]

\* manager.py lines 285-295.  A client is its identity and the config it was
\* built from.
get_client(config_name) ==
    /\ IF config_name \notin DOMAIN clients
       THEN LET name == IF config_name \notin DOMAIN configs THEN "default" ELSE config_name
            IN /\ n_clients < MaxClients
               /\ n_clients' = n_clients + 1
               /\ clients' = Put(clients, name, [id |-> n_clients + 1, config |-> configs[name]])
               /\ manager_result' = CallReturned("get_client", config_name, clients'[name].id)
       ELSE /\ manager_result' = CallReturned("get_client", config_name, clients[config_name].id)
            /\ UNCHANGED <<clients, n_clients>>
    /\ UNCHANGED configs
    /\ UNCHANGED <<runVars, llmVars, designVars, pageVars, wsVars,
                   docVars, quotaVars, srvVars, sockVars>>

\* manager.py lines 309-316
add_config(name, cfg) ==
    /\ configs' = Put(configs, name, cfg)
    /\ clients' = IF name \in DOMAIN clients THEN Del(clients, name) ELSE clients
    /\ manager_result' = CallReturned("add_config", name, 0)
    /\ UNCHANGED n_clients
    /\ UNCHANGED <<runVars, llmVars, designVars, pageVars, wsVars,
                   docVars, quotaVars, srvVars, sockVars>>

\* manager.py lines 326-330: model_dump, update, LLMConfig(**config_dict)
UpdatedConfig(cfg, kwargs) ==
    [f \in DOMAIN cfg |-> IF f \in DOMAIN kwargs THEN kwargs[f] ELSE cfg[f]]

\* manager.py lines 318-337
update_config(name, kwargs) ==
    /\ IF name \notin DOMAIN configs
       THEN /\ manager_result' = CallRaised("update_config", name, "KeyError")
            /\ UNCHANGED <<configs, clients>>
       ELSE /\ configs' = Put(configs, name, UpdatedConfig(configs[name], kwargs))
            /\ clients' = IF name \in DOMAIN clients THEN Del(clients, name) ELSE clients
            /\ manager_result' = CallReturned("update_config", name, 0)
    /\ UNCHANGED n_clients
    /\ UNCHANGED <<runVars, llmVars, designVars, pageVars, wsVars,
                   docVars, quotaVars, srvVars, sockVars>>

\* manager.py lines 339-350
remove_config(name) ==
    /\ IF name = "default"
       THEN /\ manager_result' = CallRaised("remove_config", name, "ValueError")
            /\ UNCHANGED <<configs, clients>>
       ELSE /\ configs' = IF name \in DOMAIN configs THEN Del(configs, name) ELSE configs
            /\ clients' = IF name \in DOMAIN clients THEN Del(clients, name) ELSE clients
            /\ manager_result' = CallReturned("remove_config", name, 0)
    /\ UNCHANGED n_clients
    /\ UNCHANGED <<runVars, llmVars, designVars, pageVars, wsVars,
                   docVars, quotaVars, srvVars, sockVars>>

----
\* ServerManager (start.py)

\* A child process: not spawned, running, sent SIGTERM, exited by itself,
\* ended by terminate() or ended by kill().
ChildStates == {"none", "running", "terminating", "exited", "terminated", "killed"}

\* poll() is None
Alive(child) == child \in {"running", "terminating"}

RestOfServerUnchanged ==
    UNCHANGED <<runVars, llmVars, designVars, pageVars, wsVars,
                docVars, quotaVars, mgrVars, sockVars>>

\* start.py lines 166-174: run() installs the handlers and calls start_all.
Run ==
    /\ spc = "idle"
    /\ spc' = "start_api"
    /\ UNCHANGED <<api, worker, api_process, worker_process, is_running, exit_code>>
    /\ RestOfServerUnchanged

\* start.py line 24: Popen starts the child.
SpawnApi ==
    /\ spc = "start_api"
    /\ api' = "running"
    /\ spc' = "api_spawned"
    /\ UNCHANGED <<worker, api_process, worker_process, is_running, exit_code>>
    /\ RestOfServerUnchanged

\* start.py line 24: the Popen object is assigned to self.api_process.
AssignApi ==
    /\ spc = "api_spawned"
    /\ api_process' = TRUE
    /\ spc' = "api_sleep"
    /\ UNCHANGED <<api, worker, worker_process, is_running, exit_code>>
    /\ RestOfServerUnchanged

\* start.py lines 33-40 after the sleep, start_all lines 80-82 and run lines
\* 177-178.
PollApi ==
    /\ spc = "api_sleep"
    /\ IF Alive(api)
       THEN /\ spc' = "start_worker"
            /\ UNCHANGED exit_code
       ELSE /\ spc' = "done"
            /\ exit_code' = "1"
    /\ UNCHANGED <<api, worker, api_process, worker_process, is_running>>
    /\ RestOfServerUnchanged

\* start.py line 46
SpawnWorker ==
    /\ spc = "start_worker"
    /\ worker' = "running"
    /\ spc' = "worker_spawned"
    /\ UNCHANGED <<api, api_process, worker_process, is_running, exit_code>>
    /\ RestOfServerUnchanged

\* start.py line 46
AssignWorker ==
    /\ spc = "worker_spawned"
    /\ worker_process' = TRUE
    /\ spc' = "worker_sleep"
    /\ UNCHANGED <<api, worker, api_process, is_running, exit_code>>
    /\ RestOfServerUnchanged

\* start.py lines 55-62 after the sleep and start_all lines 87-93: a worker
\* that is gone makes start_all call stop_all, and run exits with 1 after it.
PollWorker ==
    /\ spc = "worker_sleep"
    /\ IF Alive(worker)
       THEN /\ is_running' = TRUE
            /\ spc' = "monitor"
            /\ UNCHANGED exit_code
       ELSE /\ spc' = "stop_worker"
            /\ exit_code' = "1"
            /\ UNCHANGED is_running
    /\ UNCHANGED <<api, worker, api_process, worker_process>>
    /\ RestOfServerUnchanged

\* start.py lines 146-164 and 183-188: the pass of the loop that finds a child
\* gone leaves the loop, and the finally clause calls stop_all.
Monitor ==
    /\ spc = "monitor"
    /\ is_running
    /\ ~Alive(api) \/ ~Alive(worker)
    /\ is_running' = FALSE
    /\ spc' = "stop_worker"
    /\ exit_code' = "returned"
    /\ UNCHANGED <<api, worker, api_process, worker_process>>
    /\ RestOfServerUnchanged

\* start.py lines 169-174: SIGINT or SIGTERM while run() is under way.  The
\* handler calls stop_all from its beginning and exits with 0 after it.
Signal ==
    /\ spc \notin {"idle", "done"}
    /\ spc' = "stop_worker"
    /\ exit_code' = "0"
    /\ UNCHANGED <<api, worker, api_process, worker_process, is_running>>
    /\ RestOfServerUnchanged

\* start.py lines 119-121: stop_all terminates the worker it holds a handle of.
StopWorker ==
    /\ spc = "stop_worker"
    /\ IF worker_process /\ Alive(worker)
       THEN /\ worker' = "terminating"
            /\ spc' = "wait_worker"
       ELSE /\ spc' = "stop_api"
            /\ UNCHANGED worker
    /\ UNCHANGED <<api, api_process, worker_process, is_running, exit_code>>
    /\ RestOfServerUnchanged

\* start.py lines 122-128: the wait returns, or times out and the worker is
\* killed.
WaitWorker ==
    /\ spc = "wait_worker"
    /\ worker' = IF Alive(worker) THEN "killed" ELSE worker
    /\ spc' = "stop_api"
    /\ UNCHANGED <<api, api_process, worker_process, is_running, exit_code>>
    /\ RestOfServerUnchanged

\* start.py lines 131-133
StopApi ==
    /\ spc = "stop_api"
    /\ IF api_process /\ Alive(api)
       THEN /\ api' = "terminating"
            /\ spc' = "wait_api"
            /\ UNCHANGED is_running
       ELSE \* lines 142-143, and the exit of the caller
            /\ is_running' = FALSE
            /\ spc' = "done"
            /\ UNCHANGED api
    /\ UNCHANGED <<worker, api_process, worker_process, exit_code>>
    /\ RestOfServerUnchanged

\* start.py lines 134-143, and the exit of the caller
WaitApi ==
    /\ spc = "wait_api"
    /\ api' = IF Alive(api) THEN "killed" ELSE api
    /\ is_running' = FALSE
    /\ spc' = "done"
    /\ UNCHANGED <<worker, api_process, worker_process, exit_code>>
    /\ RestOfServerUnchanged

\* A child exits: by itself, or on the SIGTERM it was sent.
ApiExits ==
    /\ Alive(api)
    /\ api' = IF api = "running" THEN "exited" ELSE "terminated"
    /\ UNCHANGED <<spc, worker, api_process, worker_process, is_running, exit_code>>
    /\ RestOfServerUnchanged

WorkerExits ==
    /\ Alive(worker)
    /\ worker' = IF worker = "running" THEN "exited" ELSE "terminated"
    /\ UNCHANGED <<spc, api, api_process, worker_process, is_running, exit_code>>
    /\ RestOfServerUnchanged

----
\* websocket_endpoint (backend/main.py) and ConnectionManager.broadcast

\* The iterator over active_connections.items() and disconnected_clients of
\* one broadcast: the size the dict had when the iteration began, the keys
\* yielded, the key whose send is awaited, the clients whose send failed.
NoIteration == [len0 |-> 0, visited |-> {}, current |-> None, failed |-> {}]

RestOfEndpointUnchanged ==
    UNCHANGED <<events, last_send, cancel_pc, cancel_response,
                runVars, llmVars, designVars, pageVars,
                docVars, quotaVars, mgrVars, srvVars>>

\* main.py line 107 and websocket_manager.py lines 17-21: the accept returns
\* and connect stores the websocket under the client id.
websocket_endpoint(ws, client_id) ==
    /\ hpc[ws] = "none"
    /\ active_connections' = Put(active_connections, client_id, ws)
    /\ client_of' = [client_of EXCEPT ![ws] = client_id]
    /\ accepted' = Append(accepted, ws)
    /\ hpc' = [hpc EXCEPT ![ws] = "receiving"]
    /\ UNCHANGED iters
    /\ RestOfEndpointUnchanged

\* main.py lines 111-113 and websocket_manager.py lines 29-36: the echo is
\* sent on the connection stored under the client id; a send that raises
\* removes that entry.  A send that succeeds changes nothing.
EchoFails(ws) ==
    /\ hpc[ws] = "receiving"
    /\ client_of[ws] \in DOMAIN active_connections
    /\ active_connections' = Del(active_connections, client_of[ws])
    /\ UNCHANGED <<hpc, client_of, accepted, iters>>
    /\ RestOfEndpointUnchanged

\* main.py lines 114-116 and websocket_manager.py lines 23-27 and 38-43:
\* receive_text raises WebSocketDisconnect, the handler deletes the entry of
\* the client id and broadcast begins: the iterator is created and the first
\* send is awaited, or the dict is empty and broadcast returns.
ReceiveDisconnect(ws) ==
    /\ hpc[ws] = "receiving"
    /\ active_connections' = Del(active_connections, client_of[ws])
    /\ IF DOMAIN active_connections' = {}
       THEN /\ hpc' = [hpc EXCEPT ![ws] = "done"]
            /\ UNCHANGED iters
       ELSE /\ hpc' = [hpc EXCEPT ![ws] = "broadcast"]
            /\ \E first \in DOMAIN active_connections' :
                 iters' = [iters EXCEPT ![ws] =
                     [len0 |-> Cardinality(DOMAIN active_connections'),
                      visited |-> {}, current |-> first, failed |-> {}]]
    /\ UNCHANGED <<client_of, accepted>>
    /\ RestOfEndpointUnchanged

\* websocket_manager.py lines 42-51: the awaited send returns or raises, and
\* the iterator is asked for the next item.  It raises RuntimeError when the
\* dict has changed size since the iteration began, yields a key not yet
\* yielded, or ends; after the end the clients whose send failed are deleted.
BroadcastStep(ws, sent) ==
    /\ hpc[ws] = "broadcast"
    /\ LET it == iters[ws]
           visited == it.visited \cup {it.current}
           failed == IF sent THEN it.failed ELSE it.failed \cup {it.current}
           left == DOMAIN active_connections \ visited
       IN IF Cardinality(DOMAIN active_connections) # it.len0
          THEN /\ hpc' = [hpc EXCEPT ![ws] = "raised"]
               /\ iters' = [iters EXCEPT ![ws] = NoIteration]
               /\ UNCHANGED active_connections
          ELSE IF left # {}
          THEN /\ \E next \in left :
                    iters' = [iters EXCEPT ![ws] =
                        [it EXCEPT !.visited = visited, !.current = next, !.failed = failed]]
               /\ UNCHANGED <<hpc, active_connections>>
          ELSE /\ hpc' = [hpc EXCEPT ![ws] = "done"]
               /\ iters' = [iters EXCEPT ![ws] = NoIteration]
               /\ active_connections' =
                      [c \in DOMAIN active_connections \ failed |-> active_connections[c]]
    /\ UNCHANGED <<client_of, accepted>>
    /\ RestOfEndpointUnchanged

----
\* No client call is under way.
ClientIdle ==
    /\ entry = None
    /\ lpc = "idle"
    /\ handler = None
    /\ fallbacks = 0
    /\ attempts = 0
    /\ n_requests = 0
    /\ last = NoAnswer
    /\ content = <<>>
    /\ outcome = NoOutcome

\* The run has not started.
RunIdle ==
    /\ project = [status |-> "pending", progress |-> 0, error_message |-> None,
                  output_path |-> None]
    /\ pc = "start"
    /\ result = NoResult
    /\ exc = None
    /\ gpc = "idle"
    /\ slides_data = <<>>
    /\ metadata = <<>>
    /\ tasks = <<>>
    /\ ppt_dir = {}
    /\ slide_files = <<>>
    /\ gen_result = NoGenResult

\* No design was asked for.
DesignIdle ==
    /\ style = None
    /\ dpc = "idle"
    /\ design_response = NoResponse
    /\ design = NoDesign
    /\ design_error = <<>>
    /\ defaults_returned = {}

\* No page was asked for.
PageIdle ==
    /\ speech_scene = None
    /\ ppc = "idle"
    /\ page_response = NoResponse
    /\ page_result = NoPage
    /\ page_error = <<>>

\* No socket is open and no request to cancel was made.
SocketIdle ==
    /\ active_connections = <<>>
    /\ events = <<>>
    /\ last_send = "none"
    /\ cancel_pc = "idle"
    /\ cancel_response = NoCancel

\* No document was asked for.
DocIdle == document_response = NoDocument

\* database.py lines 60-62: a new user, and no request to create a project.
QuotaIdle ==
    /\ user = [tier |-> "free", count |-> 0]
    /\ n_projects = 0
    /\ n_queued = 0
    /\ create_response = 0

\* manager.py lines 21-35 and 155-205: the manager after construction.
ManagerIdle ==
    /\ configs = DefaultConfigs
    /\ clients = <<>>
    /\ n_clients = 0
    /\ manager_result = NoCall

\* start.py lines 15-18: the ServerManager after construction.
ServerIdle ==
    /\ spc = "idle"
    /\ api = "none"
    /\ worker = "none"
    /\ api_process = FALSE
    /\ worker_process = FALSE
    /\ is_running = FALSE
    /\ exit_code = "none"

\* No websocket has been opened.
EndpointsIdle ==
    /\ hpc = [ws \in WebSockets |-> "none"]
    /\ client_of = [ws \in WebSockets |-> None]
    /\ accepted = <<>>
    /\ iters = [ws \in WebSockets |-> NoIteration]

RestIdle == DocIdle /\ QuotaIdle /\ ManagerIdle /\ ServerIdle /\ EndpointsIdle

\* One run; no client has a socket open.
Init ==
    /\ RunIdle
    /\ document_type \in DocumentType
    /\ config = DefaultConfig
    /\ instructor_installed = TRUE
    /\ ClientIdle
    /\ DesignIdle
    /\ PageIdle
    /\ SocketIdle
    /\ RestIdle

\* One call of one client, of any configuration.
LLMInit ==
    /\ RunIdle
    /\ document_type = "report"
    /\ config \in Configs
    /\ instructor_installed \in BOOLEAN
    /\ ClientIdle
    /\ DesignIdle
    /\ PageIdle
    /\ SocketIdle
    /\ RestIdle

\* The agents of the slide pipeline, with the default client.
AgentInit ==
    /\ RunIdle
    /\ document_type = "ppt"
    /\ config = DefaultConfig
    /\ instructor_installed = TRUE
    /\ ClientIdle
    /\ DesignIdle
    /\ PageIdle
    /\ SocketIdle
    /\ RestIdle

\* One run of a single document, its clients and their requests to cancel it.
EventInit ==
    /\ RunIdle
    /\ document_type = "report"
    /\ config = DefaultConfig
    /\ instructor_installed = TRUE
    /\ ClientIdle
    /\ DesignIdle
    /\ PageIdle
    /\ SocketIdle
    /\ RestIdle

TaskNext ==
    \/ TaskStart \/ TaskNotify0 \/ TaskInit \/ TaskNotify10 \/ TaskContext
    \/ TaskNotify20 \/ SearchReturn \/ SearchRaise \/ TaskSearched \/ TaskNotify60
    \/ TaskCheck \/ TaskNotify80 \/ TaskFinalize \/ TaskNotifyCompleted
    \/ TaskNotifyError \/ TaskFinally

GenNext ==
    \/ GenerateStart
    \/ \E n \in 1..MaxSlides : n \in DOMAIN tasks /\ (SlideReturn(n) \/ SlideRaise(n))
    \/ GenerateFinish

Next == TaskNext \/ GenNext \/ cancel_project \/ update_project

Spec == Init /\ [][Next]_vars

LLMNext ==
    \/ ChatCompletionCall \/ GetStructuredResponseCall \/ SdkRetry
    \/ InstructorReturn \/ InstructorRaise \/ ChatReturn \/ ChatRaise

LLMSpec == LLMInit /\ [][LLMNext]_vars

CoordinatorNext ==
    \/ \E s \in Styles : GenerateDesignSpecCall(s) \/ GetDefaultDesignCall(s)
    \/ \E e \in UpstreamErrors : DesignChatRaises(e)
    \/ \E r \in DesignResponses : DesignChatReturns(r)

CoordinatorSpec == AgentInit /\ [][CoordinatorNext]_vars

PageAgentNext ==
    \/ \E scene \in {None, "conference talk"} : GeneratePageHtmlCall(scene)
    \/ \E e \in UpstreamErrors : PageChatRaises(e) \/ SpeechChatRaises(e)
    \/ \E r \in PageResponses : PageChatReturns(r)
    \/ \E r \in SpeechResponses : SpeechChatReturns(r)

PageAgentSpec == AgentInit /\ [][PageAgentNext]_vars

EventNext ==
    \/ TaskStart \/ TaskNotify0 \/ TaskInit \/ TaskNotify10 \/ TaskContext
    \/ TaskNotify20 \/ SearchReturn \/ SearchRaise \/ TaskSearched \/ TaskNotify60
    \/ TaskCheck \/ TaskNotify80 \/ TaskFinalize \/ TaskNotifyCompleted
    \/ TaskNotifyError \/ TaskFinally
    \/ \E client \in Users : Connect(client, OwnSocket(client)) \/ Disconnect(client)
    \/ \E caller \in Users : CancelRequest(caller)
    \/ CancelNotify

EventSpec == EventInit /\ [][EventNext]_vars

\* A user of any tier, part of the month gone, and the requests to create projects.
QuotaInit ==
    /\ RunIdle
    /\ document_type = "report"
    /\ config = DefaultConfig
    /\ instructor_installed = TRUE
    /\ ClientIdle /\ DesignIdle /\ PageIdle /\ SocketIdle
    /\ DocIdle /\ ManagerIdle /\ ServerIdle /\ EndpointsIdle
    /\ user \in {u \in [tier : SubscriptionTier, count : 0..MaxDocuments] :
                     u.tier = "free" => u.count <= FreeLimit}
    /\ n_projects = 0
    /\ n_queued = 0
    /\ create_response = 0

QuotaSpec == QuotaInit /\ [][create_project]_vars

\* One manager and the calls of its four methods.
ManagerInit ==
    /\ RunIdle
    /\ document_type = "report"
    /\ config = DefaultConfig
    /\ instructor_installed = TRUE
    /\ ClientIdle /\ DesignIdle /\ PageIdle /\ SocketIdle
    /\ RestIdle

ManagerNext ==
    \/ \E name \in ConfigNames : get_client(name)
    \/ \E name \in ConfigNames, cfg \in AddedConfigs : add_config(name, cfg)
    \/ \E name \in ConfigNames, kwargs \in UpdateKwargs : update_config(name, kwargs)
    \/ \E name \in ConfigNames : remove_config(name)

ManagerSpec == ManagerInit /\ [][ManagerNext]_vars

ServerNext ==
    \/ Run \/ SpawnApi \/ AssignApi \/ PollApi
    \/ SpawnWorker \/ AssignWorker \/ PollWorker
    \/ Monitor \/ Signal
    \/ StopWorker \/ WaitWorker \/ StopApi \/ WaitApi
    \/ ApiExits \/ WorkerExits

\* One ServerManager; ManagerInit is the state with everything constructed.
ServerSpec == ManagerInit /\ [][ServerNext]_vars

SocketNext ==
    \/ \E ws \in WebSockets, client_id \in Users : websocket_endpoint(ws, client_id)
    \/ \E ws \in WebSockets : EchoFails(ws)
    \/ \E ws \in WebSockets : ReceiveDisconnect(ws)
    \/ \E ws \in WebSockets, sent \in BOOLEAN : BroadcastStep(ws, sent)

\* The websockets clients open, with no run under way.
SocketSpec == ManagerInit /\ [][SocketNext]_vars

\* One run, the requests to cancel it and the requests for its document.
DocumentNext ==
    \/ TaskStart \/ TaskNotify0 \/ TaskInit \/ TaskNotify10 \/ TaskContext
    \/ TaskNotify20 \/ SearchReturn \/ SearchRaise \/ TaskSearched \/ TaskNotify60
    \/ TaskCheck \/ TaskNotify80 \/ TaskFinalize \/ TaskNotifyCompleted
    \/ TaskNotifyError \/ TaskFinally
    \/ \E caller \in Users : CancelRequest(caller)
    \/ CancelNotify
    \/ \E caller \in Users : download_document(caller) \/ preview_document(caller)

DocumentSpec == EventInit /\ [][DocumentNext]_vars

\* The event loop resumes every coroutine whose awaited call is over.
FairSpec == Spec /\ WF_vars(TaskNext \/ GenNext)

----
\* Properties

\* C1: once the status is completed, failed or cancelled no operation changes it.
C1_TerminalAbsorbing ==
    [][project.status \in Terminal => project'.status = project.status]_vars

\* C2: the stored progress is one of the checkpoints 0, 10, 20, 60, 80, 100, lies
\* in 0..100 and never decreases, whatever the task, cancel_project and
\* update_project do.
C2_ProgressStaircase ==
    /\ [](/\ project.progress \in 0..100
          /\ \E k \in DOMAIN Checkpoints : project.progress = Checkpoints[k])
    /\ [][project'.progress >= project.progress]_vars

\* The failure path ran after progress had been reported.
C2_Witness ==
    /\ pc = "done"
    /\ project.progress = 60
    /\ project.error_message # None

\* C3: once the run is cancelled no further slide generation is launched.
C3_NoLaunchAfterCancel ==
    [][project.status = "cancelled" => DOMAIN tasks' \subseteq DOMAIN tasks]_vars

\* Under FairSpec the task ends, and it ends behind a commit of completed, or of
\* failed together with an error message.
RunTerminates ==
    /\ <>(pc = "done")
    /\ [][pc' \in {"notify_completed", "notify_error"} /\ pc' # pc
             => /\ project'.status \in {"completed", "failed"}
                /\ (project'.status = "failed") = (project'.error_message # None)]_vars

\* C4: every run ends, with a terminal status stored, and reaches exactly one
\* terminal outcome: no step of the run takes it from one terminal status to
\* another.
C4_OneTerminalOutcome ==
    /\ RunTerminates
    /\ [][project.status \in Terminal /\ project'.status \in Terminal /\ pc' # pc
             => project'.status = project.status]_vars

\* C5: the error message of a failed run is the first exception raised in the
\* pipeline (for a failed search, the error the search reported); it is written
\* once, and nothing after it changes or clears it.
C5_FirstCauseKept ==
    /\ [](pc \in {"notify_error", "finally", "done"} /\ exc # None
             => project.error_message = exc)
    /\ [](project.error_message # None => project.error_message = exc)
    /\ [](exc # None /\ result.error # None => exc = result.error)
    /\ [][exc # None => exc' = exc]_vars
    /\ [][project.error_message # None
             => project'.error_message = project.error_message]_vars

\* A failed search, reported and cleaned up.
C5_Witness ==
    /\ pc = "done"
    /\ result.error \in SearchErrors
    /\ project.error_message = result.error

\* C6: the stages are entered in the fixed order, one checkpoint after the other,
\* none skipped or repeated; the task enters processing at its first step only;
\* the stages after the search start only once the search has returned,
\* finalisation only once it has succeeded.
C6_StagesInOrder ==
    /\ [][project'.progress # project.progress
             => \E k \in 1..(Len(Checkpoints) - 1) :
                   /\ project.progress = Checkpoints[k]
                   /\ project'.progress = Checkpoints[k + 1]]_vars
    /\ [][pc' # pc /\ project'.status # project.status
             => \/ pc = "start" /\ project'.status = "processing"
                \/ project'.status \in Terminal]_vars
    /\ [](project.progress >= Checkpoints[4] => result.status # None)
    /\ [](project.progress >= Checkpoints[5] => result.status = "success")

C6_Witness ==
    /\ pc = "finalize"
    /\ project.progress = Checkpoints[5]

\* Following next from slide n, at most k slides far.
RECURSIVE Walk(_, _)
Walk(n, k) ==
    LET to == {m \in DOMAIN metadata : metadata[m].file_name = metadata[n].next}
    IN  IF k = 0 THEN <<>>
        ELSE IF to = {} THEN <<n>>
        ELSE <<n>> \o Walk(CHOOSE m \in to : TRUE, k - 1)

\* C7: prev/next of the metadata form one chain: no prev at the first slide, no
\* next at the last, neighbours name each other's file, a file name names one
\* slide, and following next from the first slide visits every slide once.
C7_LinearChain ==
    LET N == Len(metadata)
    IN  N >= 1 =>
          /\ metadata[1].prev = None
          /\ metadata[N].next = None
          /\ \A n \in 1..(N - 1) :
                /\ metadata[n].next = metadata[n + 1].file_name
                /\ metadata[n + 1].prev = metadata[n].file_name
          /\ \A n, m \in 1..N : metadata[n].file_name = metadata[m].file_name => n = m
          /\ \A n \in 1..N : metadata[n].file_name # None
          /\ Walk(1, N + 1) = [n \in 1..N |-> n]

C7_Witness ==
    /\ Len(metadata) = 3
    /\ metadata[1].type # metadata[2].type

\* The slides whose generation succeeded.
Survivors == {n \in DOMAIN tasks : tasks[n] = "returned"}

Lowest(S) == CHOOSE n \in S : \A m \in S : n <= m
Highest(S) == CHOOSE n \in S : \A m \in S : n >= m

\* C8: when generate_ppt has returned, prev/next of each surviving slide name the
\* nearest surviving slide before and after it, None where there is none.
C8_SurvivorChain ==
    gpc = "returned" =>
        \A n \in Survivors :
            LET before == {m \in Survivors : m < n}
                after == {m \in Survivors : m > n}
            IN  /\ metadata[n].prev =
                      IF before = {} THEN None ELSE metadata[Highest(before)].file_name
                /\ metadata[n].next =
                      IF after = {} THEN None ELSE metadata[Lowest(after)].file_name

\* The slide files in the slides directory.
SlidesOnDisk == ppt_dir \ ({"index.html", "presenter.html"} \cup {MetadataFile})

C10_JoinBeforeManifest ==
    (gpc = "returned" \/ ppt_dir \cap {"index.html", "presenter.html", MetadataFile} # {})
        => /\ \A n \in DOMAIN tasks : tasks[n] \in {"returned", "raised"}
           /\ gen_result.status = "success" => Len(slide_files) = Cardinality(Survivors)

C10_Witness ==
    /\ gpc = "returned"
    /\ MetadataFile \in ppt_dir
    /\ Len(tasks) >= 2
    /\ \E n, m \in DOMAIN tasks : tasks[n] = "raised" /\ tasks[m] = "returned"

\* The paths of the surviving slides, by ascending slide number.
SurvivorPaths ==
    LET nth(i) == CHOOSE n \in Survivors : Cardinality({m \in Survivors : m < n}) = i - 1
    IN  [i \in 1..Cardinality(Survivors) |-> SlidePath(metadata[nth(i)])]

\* C11: a slide whose generation raises leaves every other slide task and every
\* written file as it was; when _generate_all_slides has returned every slide that
\* did not raise has returned, its file is written, and slide_files lists exactly
\* the slides that returned, in input order.
C11_FailuresIsolated ==
    /\ [][\A n \in DOMAIN tasks :
            tasks[n] = "running" /\ tasks'[n] = "raised"
                => /\ \A m \in DOMAIN tasks \ {n} : tasks'[m] = tasks[m]
                   /\ ppt_dir' = ppt_dir
                   /\ gpc' = gpc]_vars
    /\ [](gpc = "returned"
            => /\ \A n \in DOMAIN tasks : tasks[n] # "raised" => tasks[n] = "returned"
               /\ \A n \in Survivors : SlidePath(metadata[n]) \in ppt_dir
               /\ slide_files = SurvivorPaths)

\* The first and the last of three slides raised, the middle one is listed.
C11_Witness ==
    /\ gpc = "returned"
    /\ Len(tasks) = 3
    /\ tasks[1] = "raised" /\ tasks[3] = "raised"
    /\ slide_files = <<SlidePath(metadata[2])>>
    /\ SlidePath(metadata[2]) \in ppt_dir

\* The slides whose generation raised.
Raised == {n \in DOMAIN tasks : tasks[n] = "raised"}

C13_TotalFailureFails ==
    gpc = "returned" /\ Len(tasks) >= 1 /\ Survivors = {}
        => /\ gen_result.status = "error"
           /\ gen_result.error # None

\* The slide a path of slide_files belongs to.
SlideOf(path) == CHOOSE n \in DOMAIN metadata : SlidePath(metadata[n]) = path

\* C14: from the launch of the slide tasks on, in every interleaving of their
\* completions, the metadata is the one computed from the input list and no
\* step changes it; slide_files is in ascending slide order.
C14_MetadataDeterministic ==
    /\ [](gpc # "idle" => metadata = CreateSlidesMetadata(slides_data))
    /\ [][gpc # "idle" => metadata' = metadata /\ slides_data' = slides_data]_vars
    /\ [](\A i, j \in DOMAIN slide_files :
              i < j => SlideOf(slide_files[i]) < SlideOf(slide_files[j]))

\* The last slide completed while the first two are still running.
C14_Witness ==
    /\ gpc = "gather"
    /\ tasks = <<"running", "running", "returned">>
    /\ metadata[3].slide_number = 3

\* C15: index.html lists every slide and shows the ones that raised as failed;
\* presenter.html lists the surviving slides only.
C15_EntryPointCoverage ==
    gpc = "returned"
        => /\ "index.html" \in ppt_dir
                 => /\ IndexListing(metadata) = DOMAIN tasks
                    /\ MarkedFailed(metadata) = Raised
           /\ "presenter.html" \in ppt_dir
                 => PresenterListing(metadata) = Survivors

\* C16: within one call no request follows a request that failed with an
\* authentication error, the fallback path of get_structured_response included;
\* a request follows a failed one only after a connection or upstream error, and
\* a request is sent again at most max_retries times.
C16_NoRequestAfterAuthError ==
    /\ [][last.kind = "auth" => n_requests' = n_requests]_vars
    /\ [][n_requests' # n_requests /\ last.kind \notin {"none", "ok", "decode"}
             => last.kind \in {"connection", "upstream"}]_vars
    /\ [](attempts <= config.max_retries)

\* The error classes an exception of chat_completion belongs to.
ErrorClasses(d) ==
    {c \in {"auth", "model_unavailable", "connection", "upstream"} :
        \/ c = "auth" /\ Head(d) = "API key error"
        \/ c = "model_unavailable" /\ Head(d) = "Model error"
        \/ c = "connection" /\ Head(d) = "Connection error"
        \/ c = "upstream"
             /\ Head(d) \notin {"API key error", "Model error", "Connection error"}}

\* The message d contains the message raw.
Carries(d, raw) ==
    \E i \in 1..Len(d) :
        /\ i + Len(raw) - 1 <= Len(d)
        /\ SubSeq(d, i, i + Len(raw) - 1) = raw

\* C17: an exception chat_completion raises belongs to exactly one of the four
\* error classes and its message contains the message of the upstream failure.
C17_OneClassWithRawMessage ==
    entry = "chat_completion" /\ lpc = "raised"
        => /\ Cardinality(ErrorClasses(outcome.error)) = 1
           /\ Carries(outcome.error, last.text)

\* C18: get_structured_response takes the structured path first for the
\* providers that support it; when that path returns, the fallback was never
\* called and the response is returned as it is; in every other case the
\* fallback is called exactly once.
C18_FallbackExactlyOnce ==
    /\ [][(/\ lpc = "idle" /\ entry' = "get_structured_response"
           /\ instructor_installed
           /\ config.provider \in OpenAICompatibleProviders)
              => lpc' = "instructor" /\ fallbacks' = 0]_vars
    /\ [][lpc = "instructor" /\ lpc' = "returned"
             => fallbacks' = 0 /\ outcome' = Value(<<JsonConforming>>)]_vars
    /\ [](entry = "get_structured_response" /\ lpc \in {"chat", "returned", "raised"}
             => \/ fallbacks = 1
                \/ fallbacks = 0 /\ lpc = "returned")

\* C19: whatever text the model answers with, get_structured_response does not
\* raise: a call whose last request was answered has not ended in an exception.
C19_DecodeFailureNotSurfaced ==
    entry = "get_structured_response" /\ last.kind = "ok" => lpc # "raised"

\* C20: an answer made of prose, a json fence around the JSON payload J, and
\* prose again gives get_structured_response what the bare answer J gives it.
C20_WrappingInvariance ==
    \A J \in {<<JsonConforming>>, <<JsonViolating>>} :
        \A lead \in Leads \ {<<>>}, trail \in Trails \ {<<>>} :
            (/\ entry = "get_structured_response"
             /\ lpc \in {"returned", "raised"}
             /\ last.kind = "ok"
             /\ content = lead \o <<FenceJson, Space>> \o J \o <<Space, Fence>> \o trail)
                => outcome = ParseFallback(J)

----
\* DesignCoordinator

\* line 85: response.get("content", "") of a response generate_design_spec
\* can go on with.
Parsable(r) == r.content = "text" /\ ParseDesign(r.text).ok

\* C21: generate_design_spec never raises to its caller, whatever the model
\* call does, and returns the default of the style tag whenever the response
\* cannot be parsed.
C21_DesignTotal ==
    /\ dpc # "raised"
    /\ (dpc = "returned" /\ ~Parsable(design_response)) => design = get_default_design(style)

\* #RRGGBB: a '#' and six hexadecimal digits.
HexDigits ==
    {"0", "1", "2", "3", "4", "5", "6", "7", "8", "9",
     "a", "b", "c", "d", "e", "f", "A", "B", "C", "D", "E", "F"}
IsHexColour(c) == Len(c) = 7 /\ c[1] = "#" /\ \A i \in 2..7 : c[i] \in HexDigits

WellFormed(d) ==
    /\ \A f \in ColourFields : IsHexColour(d[f])
    /\ Len(d.chart_colors) = 5
    /\ \A i \in DOMAIN d.chart_colors : IsHexColour(d.chart_colors[i])

\* C22: every DesignSpec generate_design_spec returns has all colour fields in
\* the form #RRGGBB and a chart palette of exactly 5 entries.
C22_DesignWellFormed == dpc = "returned" => WellFormed(design)

\* C23: every known style tag has a default record of its own, and the generic
\* default is returned only for unknown tags.
C23_OwnDefaultPerStyle ==
    \A p \in defaults_returned : \A q \in defaults_returned :
        (p[1] # q[1] /\ (p[1] \in KnownStyles \/ q[1] \in KnownStyles)) => p[2] # q[2]

----
\* PageAgent

\* C25: a failing content call does not leave generate_page_html as an
\* exception: the call ends with a result.
C25_ContentFailureContained == page_response = NoResponse => ppc # "raised"

\* C26: with narration requested, a narration sub-call that fails after the
\* content call succeeded does not fail the unit.
C26_NarrationFailureTolerated ==
    (speech_scene # None /\ FirstMarker(page_response.text) > 0) => ppc # "raised"

\* C27: the html_content of a returned result begins with a structural start
\* marker and holds no code-fence marker.
C27_HtmlBeginsWithMarker ==
    ppc = "returned" =>
        /\ page_result.html_content # <<>>
        /\ Head(page_result.html_content) \in MarkerChunks
        /\ \A i \in DOMAIN page_result.html_content :
              page_result.html_content[i] \notin {Fence, FenceHtml}

----
\* Events and cancel_project

Closing == {"completed", "error", "project_cancelled"}

\* C28: the events of a run are progress events with non-decreasing values in
\* 0..100, then one terminal event, which is the last; nothing follows a
\* terminal event or a project_cancelled event.
C28_EventOrder ==
    [][events' # events =>
        LET e == events'[Len(events')]
        IN  /\ \A i \in DOMAIN events : events[i].type \notin Closing
            /\ e.type = "progress" =>
                  /\ e.progress \in 0..100
                  /\ \A i \in DOMAIN events :
                        events[i].type = "progress" => events[i].progress <= e.progress]_vars

\* Where the task goes on after each of its sends.
NotifySuccessor ==
    [p \in {"notify_0", "notify_10", "notify_20", "notify_60", "notify_80",
            "notify_completed", "notify_error"} |->
        CASE p = "notify_0" -> "init"
          [] p = "notify_10" -> "context"
          [] p = "notify_20" -> "search"
          [] p = "notify_60" -> "check"
          [] p = "notify_80" -> "finalize"
          [] OTHER -> "finally"]

----
\* The project row against its status

\* C31: in every state of the row, completed goes with progress 100 and an
\* output_path, failed with an error_message, pending with progress 0.
C31_StatusFieldsAgree ==
    /\ project.status = "completed" => (project.progress = 100 /\ project.output_path # None)
    /\ project.status = "failed" => project.error_message # None
    /\ project.status = "pending" => project.progress = 0

----
\* Entry points of a deck

\* C33: when generate_ppt returns success, the entry-point documents its result
\* names have been written and the metadata record exists.
C33_EntryPointsWritten ==
    (gpc = "returned" /\ gen_result.status = "success") =>
        /\ EntryPoints(gen_result) \subseteq ppt_dir
        /\ MetadataFile \in ppt_dir

----
\* Serving the document

\* C32: download_document and preview_document return the file only to the
\* owner, only for a completed project whose output exists, and never for a
\* project its owner has cancelled.
C32_ServedOnlyWhenFinished ==
    [][(document_response' # document_response /\ document_response'.code = 200) =>
          /\ document_response'.caller = Owner
          /\ project.status = "completed"
          /\ OutputExists
          /\ cancel_response # Answer(Owner, 200)]_vars

----
\* The free tier

----
\* The client cache of LLMManager

\* C37: every cached client was built from the configuration now stored under
\* its name; get_client leaves every client that is cached in place, so a name
\* keeps its client object until its configuration is added, updated or
\* removed; an unknown name gets the client cached under "default";
\* remove_config("default") and update_config of an unknown name raise and
\* change neither configs nor clients.
C37_CacheCoherent ==
    [][/\ \A n \in DOMAIN clients' : n \in DOMAIN configs' /\ clients'[n].config = configs'[n]
       /\ manager_result'.call = "get_client" =>
            /\ \A n \in DOMAIN clients : n \in DOMAIN clients' /\ clients'[n] = clients[n]
            /\ manager_result'.name \notin DOMAIN configs =>
                   manager_result'.returned = clients'["default"].id
       /\ manager_result'.raised # "none" => UNCHANGED <<configs, clients>>]_vars

----
\* The children of ServerManager

\* C38: once run() has ended, by whichever path, neither child is running and
\* is_running is False.
C38_NoOrphan ==
    spc = "done" => ~Alive(api) /\ ~Alive(worker) /\ ~is_running

----
\* The connection set

\* C34: a broadcast that runs while clients connect and disconnect ends
\* without an error.
C34_BroadcastCompletes ==
    \A ws \in WebSockets : hpc[ws] # "raised"

\* The websocket connect stored last under a client id.
LatestAccepted(client_id) ==
    LET is == {i \in DOMAIN accepted : client_of[accepted[i]] = client_id}
    IN accepted[CHOOSE i \in is : \A j \in is : j <= i]

\* C35: the entry of a client id is the connection accepted last under that
\* id, and when a connection disconnects the entries that hold other
\* connections stay as they are.
C35_NewestStaysRegistered ==
    [][/\ \A c \in DOMAIN active_connections' : active_connections'[c] = LatestAccepted(c)'
       /\ \A ws \in WebSockets :
            (hpc[ws] = "receiving" /\ hpc'[ws] # "receiving") =>
                \A c \in DOMAIN active_connections :
                    active_connections[c] # ws =>
                        /\ c \in DOMAIN active_connections'
                        /\ active_connections'[c] = active_connections[c]]_vars
====
